---- MODULE Spec2Model ----
(***************************************************************************)
(* State-machine model of src/frontend/app.js (Presupuestos NAUKA          *)
(* front-end): the module-level view state, the DOM the handlers read and  *)
(* write, the requests in flight, and one action per event handler or      *)
(* response continuation.                                                  *)
(*                                                                         *)
(* Conventions.                                                            *)
(*  - A JavaScript string is a sequence of one-character strings, so that  *)
(*    concatenation, startsWith and the escape functions are computed.     *)
(*  - A handler is an operator from a state record s (the fields of Cur)   *)
(*    to a state record; an action commits the record the handler returns. *)
(*  - An async function runs up to its first pending await in the step     *)
(*    that calls it; the rest runs in the step that settles the request.   *)
(*  - The record of a step also carries sent, the requests the step        *)
(*    issued in order, notice, the alert() calls it made, and unhandled,   *)
(*    the rejections that left a handler with no catch.                    *)
(***************************************************************************)
EXTENDS Integers, Sequences, FiniteSets, TLC

VARIABLES
    estado,               \* let estado (app.js:7)
    glosario,             \* let glosario (app.js:17)
    estadoExpansion,      \* let estadoExpansion (app.js:541)
    filtrosResumen,       \* let filtrosResumen (app.js:547)
    totalProyectoGlobal,  \* let totalProyectoGlobal (app.js:554)
    globales,             \* let proveedoresGlobal (app.js:1173) and the lets of
                          \* the quotations section (app.js:1325-1327)
    dom,                  \* the parts of the document the handlers touch
    tasks,                \* suspended async calls, each waiting for its request
    acciones              \* user actions taken so far (bounds a behaviour)

vars == <<estado, glosario, estadoExpansion, filtrosResumen,
          totalProyectoGlobal, globales, dom, tasks, acciones>>

----------------------------------------------------------------------------
(* Bounds *)

MaxTasks == 2        \* suspended calls while the user may still act
MaxAcciones == 5     \* user actions in one behaviour
MaxProyecto == 2     \* project ids 1..MaxProyecto
MaxPartidaId == 1    \* line-item ids 1..MaxPartidaId
MaxItemId == 1       \* quotation item ids 1..MaxItemId
MaxProyectoArbol == 1  \* project ids offered while the summary tree is explored

Null == 0            \* null / "no project": falsy like the empty option value

Proyectos == 1..MaxProyecto
PartidaIds == 1..MaxPartidaId
ItemIds == 1..MaxItemId

----------------------------------------------------------------------------
(* Strings *)


RECURSIVE ReplaceAll(_, _, _)
\* str.replace(/ch/g, rep)
ReplaceAll(str, ch, rep) ==
    IF str = << >> THEN << >>
    ELSE (IF Head(str) = ch THEN rep ELSE <<Head(str)>>)
         \o ReplaceAll(Tail(str), ch, rep)

EsEspacio(ch) == ch \in {" ", "\t", "\n", "\r"}

RECURSIVE SaltarEspacios(_)
SaltarEspacios(str) ==
    IF str # << >> /\ EsEspacio(Head(str)) THEN SaltarEspacios(Tail(str)) ELSE str

RECURSIVE ReplaceEspacios(_)
\* str.replace(/\s+/g, '_')
ReplaceEspacios(str) ==
    IF str = << >> THEN << >>
    ELSE IF EsEspacio(Head(str))
         THEN <<"_">> \o ReplaceEspacios(SaltarEspacios(str))
         ELSE <<Head(str)>> \o ReplaceEspacios(Tail(str))

StartsWith(str, pre) ==
    /\ Len(pre) <= Len(str)
    /\ SubSeq(str, 1, Len(pre)) = pre

escapeHtml(str) ==
    IF str = << >> THEN << >>
    ELSE ReplaceAll(
           ReplaceAll(
             ReplaceAll(
               ReplaceAll(
                 ReplaceAll(str, "&", <<"&", "a", "m", "p", ";">>),
                 "<", <<"&", "l", "t", ";">>),
               ">", <<"&", "g", "t", ";">>),
             "\"", <<"&", "q", "u", "o", "t", ";">>),
           "'", <<"&", "#", "0", "3", "9", ";">>)

escapeJs(str) ==
    IF str = << >> THEN << >>
    ELSE ReplaceAll(
           ReplaceAll(
             ReplaceAll(
               ReplaceAll(
                 ReplaceAll(str, "\\", <<"\\", "\\">>),
                 "'", <<"\\", "'">>),
               "\"", <<"\\", "\"">>),
             "\n", <<"\\", "n">>),
           "\r", <<"\\", "r">>)

\* The character references the HTML parser resolves in an attribute value or
\* in text when the rendered template is assigned to innerHTML.
Entidades ==
    { << <<"&", "a", "m", "p", ";">>, "&" >>,
      << <<"&", "l", "t", ";">>, "<" >>,
      << <<"&", "g", "t", ";">>, ">" >>,
      << <<"&", "q", "u", "o", "t", ";">>, "\"" >>,
      << <<"&", "#", "0", "3", "9", ";">>, "'" >> }

RECURSIVE HtmlDecode(_)
HtmlDecode(str) ==
    IF str = << >> THEN << >>
    ELSE IF \E e \in Entidades : StartsWith(str, e[1])
         THEN LET e == CHOOSE x \in Entidades : StartsWith(str, x[1])
              IN  <<e[2]>> \o HtmlDecode(SubSeq(str, Len(e[1]) + 1, Len(str)))
         ELSE <<Head(str)>> \o HtmlDecode(Tail(str))

Contiene(str, ch) == \E i \in 1..Len(str) : str[i] = ch

\* A double-quoted attribute value ends at the first double quote of the
\* template text put between the quotes.
RECURSIVE HastaComilla(_)
HastaComilla(str) ==
    IF str = << >> \/ Head(str) = "\"" THEN << >>
    ELSE <<Head(str)>> \o HastaComilla(Tail(str))

AttrValue(texto) == HtmlDecode(HastaComilla(texto))

\* The value of a single-quoted JavaScript string literal whose source text
\* (between the quotes) is src: [ok |-> FALSE] when the text ends the literal
\* early or is left unterminated.
RECURSIVE JsLiteral(_)
JsLiteral(src) ==
    IF src = << >> THEN [ok |-> TRUE, v |-> << >>]
    ELSE IF Head(src) \in {"'", "\n", "\r"} THEN [ok |-> FALSE, v |-> << >>]
    ELSE IF Head(src) = "\\"
         THEN IF Len(src) = 1 THEN [ok |-> FALSE, v |-> << >>]
              ELSE LET c == src[2]
                       r == JsLiteral(SubSeq(src, 3, Len(src)))
                       d == CASE c = "n" -> "\n" [] c = "r" -> "\r" [] OTHER -> c
                   IN  [ok |-> r.ok, v |-> <<d>> \o r.v]
         ELSE LET r == JsLiteral(Tail(src))
              IN  [ok |-> r.ok, v |-> <<Head(src)>> \o r.v]

\* `${categoria}:${concepto}`
ClaveConcepto(categoria, concepto) == categoria \o <<":">> \o concepto

\* `conceptos-${escapeHtml(categoria).replace(/\s+/g, '_')}`
IdConceptos(categoria) == <<"conceptos-">> \o ReplaceEspacios(escapeHtml(categoria))

\* `detalles-${...categoria...}-${...concepto...}`
IdDetalles(categoria, concepto) ==
    <<"detalles-">> \o ReplaceEspacios(escapeHtml(categoria))
        \o <<"-">> \o ReplaceEspacios(escapeHtml(concepto))

----------------------------------------------------------------------------
(* JavaScript objects used as maps: a function on the keys assigned so far *)

MapaVacio == << >>

Get(m, k) == IF k \in DOMAIN m THEN m[k] ELSE FALSE

Put(m, k, v) == [x \in (DOMAIN m) \cup {k} |-> IF x = k THEN v ELSE m[x]]

RECURSIVE SetToSeq(_)
SetToSeq(S) ==
    IF S = {} THEN << >>
    ELSE LET x == CHOOSE y \in S : TRUE IN <<x>> \o SetToSeq(S \ {x})

SeqToSet(q) == {q[i] : i \in 1..Len(q)}

----------------------------------------------------------------------------
(* Numbers of the JSON responses: a number or a missing field (undefined) *)

Num(n) == [t |-> "num", n |-> n]
Undef == [t |-> "undef", n |-> 0]

\* x || 0 for a response field
OrCero(x) == IF x.t = "num" THEN x.n ELSE 0

----------------------------------------------------------------------------
(* Natural numbers of any size: little-endian sequences of digits in base
   Base, without high zero digits; the mantissas of the doubles below and
   their products *)

Base == 2^15

RECURSIVE BigNorm(_)
BigNorm(a) ==
    IF a = << >> THEN << >>
    ELSE IF a[Len(a)] = 0 THEN BigNorm(SubSeq(a, 1, Len(a) - 1))
    ELSE a

BigInt(n) ==
    IF n = 0 THEN << >>
    ELSE IF n < Base THEN <<n>>
    ELSE BigNorm(<<n % Base, (n \div Base) % Base, n \div (Base * Base)>>)

RECURSIVE BigToInt(_)
BigToInt(a) == IF a = << >> THEN 0 ELSE a[1] + Base * BigToInt(Tail(a))

RECURSIVE BigAddC(_, _, _)
BigAddC(a, b, c) ==
    IF a = << >> /\ b = << >> THEN (IF c = 0 THEN << >> ELSE <<c>>)
    ELSE LET x == (IF a = << >> THEN 0 ELSE a[1]) + (IF b = << >> THEN 0 ELSE b[1]) + c
         IN  <<x % Base>> \o BigAddC(IF a = << >> THEN a ELSE Tail(a),
                                     IF b = << >> THEN b ELSE Tail(b), x \div Base)

BigAdd(a, b) == BigAddC(a, b, 0)

\* a - b - c for a >= b + c
RECURSIVE BigSubC(_, _, _)
BigSubC(a, b, c) ==
    IF a = << >> THEN << >>
    ELSE LET x == a[1] - (IF b = << >> THEN 0 ELSE b[1]) - c
         IN  <<x % Base>> \o BigSubC(Tail(a), IF b = << >> THEN b ELSE Tail(b),
                                     IF x < 0 THEN 1 ELSE 0)

BigSub(a, b) == BigNorm(BigSubC(a, b, 0))

\* -1, 0 or 1 as a is below, equal to or above b
RECURSIVE BigCmp(_, _)
BigCmp(a, b) ==
    IF Len(a) # Len(b) THEN (IF Len(a) < Len(b) THEN -1 ELSE 1)
    ELSE IF a = << >> THEN 0
    ELSE IF a[Len(a)] # b[Len(b)] THEN (IF a[Len(a)] < b[Len(b)] THEN -1 ELSE 1)
    ELSE BigCmp(SubSeq(a, 1, Len(a) - 1), SubSeq(b, 1, Len(b) - 1))

RECURSIVE BigMulSmallC(_, _, _)
BigMulSmallC(a, k, c) ==
    IF a = << >> THEN (IF c = 0 THEN << >> ELSE <<c>>)
    ELSE LET x == a[1] * k + c
         IN  <<x % Base>> \o BigMulSmallC(Tail(a), k, x \div Base)

\* a * k for 0 <= k < Base
BigMulSmall(a, k) == IF k = 0 THEN << >> ELSE BigMulSmallC(a, k, 0)

RECURSIVE BigMul(_, _)
BigMul(a, b) ==
    IF a = << >> \/ b = << >> THEN << >>
    ELSE BigAdd(BigMulSmall(a, b[1]),
                LET r == BigMul(a, Tail(b)) IN IF r = << >> THEN r ELSE <<0>> \o r)

\* quotient and remainder of a by d, 0 < d < Base, from the high digit down
RECURSIVE BigDivSmallR(_, _, _)
BigDivSmallR(a, d, r) ==
    IF a = << >> THEN [q |-> << >>, r |-> r]
    ELSE LET x == r * Base + a[Len(a)]
             rest == BigDivSmallR(SubSeq(a, 1, Len(a) - 1), d, x % d)
         IN  [q |-> Append(rest.q, x \div d), r |-> rest.r]

NormQ(x) == [q |-> BigNorm(x.q), r |-> x.r]

BigDivSmall(a, d) == NormQ(BigDivSmallR(a, d, 0))

RECURSIVE BitsInt(_)
BitsInt(n) == IF n = 0 THEN 0 ELSE 1 + BitsInt(n \div 2)

\* the number of binary digits of a
BigBits(a) == IF a = << >> THEN 0 ELSE 15 * (Len(a) - 1) + BitsInt(a[Len(a)])

\* a * 2^k
BigShl(a, k) ==
    IF a = << >> THEN << >>
    ELSE [i \in 1..(k \div 15) |-> 0] \o BigMulSmall(a, 2^(k % 15))

\* floor(a / 2^k)
BigShr(a, k) ==
    IF k \div 15 >= Len(a) THEN << >>
    ELSE BigDivSmall(SubSeq(a, (k \div 15) + 1, Len(a)), 2^(k % 15)).q

BigOdd(a) == a # << >> /\ a[1] % 2 = 1

----------------------------------------------------------------------------
(* IEEE 754 doubles: NaN, an infinity, or s * m * 2^e with m = 0 or m odd
   and below 2^53. Exponents stay far from the ends of the format, and the
   sign of a zero is dropped. *)

NaN == [k |-> "nan", s |-> 1, m |-> << >>, e |-> 0]
Inf(s) == [k |-> "inf", s |-> s, m |-> << >>, e |-> 0]
Cero == [k |-> "num", s |-> 1, m |-> << >>, e |-> 0]

\* the same value with an odd mantissa
RECURSIVE Canon(_, _, _)
Canon(s, m, e) ==
    IF m = << >> THEN Cero
    ELSE IF m[1] = 0 THEN Canon(s, Tail(m), e + 15)
    ELSE IF m[1] % 2 = 0 THEN Canon(s, BigDivSmall(m, 2).q, e + 1)
    ELSE [k |-> "num", s |-> s, m |-> m, e |-> e]

\* q + 1 when the part cut off is above half a unit (c > 0), or is half a
\* unit (c = 0) and q is odd
RedondeoPar(q, c) == IF c > 0 \/ (c = 0 /\ BigOdd(q)) THEN BigAdd(q, <<1>>) ELSE q

Round53Q(s, m, e, sh, q) ==
    Canon(s, RedondeoPar(q, BigCmp(BigSub(m, BigShl(q, sh)), BigShl(<<1>>, sh - 1))), e + sh)

Round53B(s, m, e, bits) ==
    IF bits <= 53 THEN Canon(s, m, e)
    ELSE Round53Q(s, m, e, bits - 53, BigShr(m, bits - 53))

\* the double nearest to s * m * 2^e, ties to the even mantissa
Round53(s, m, e) == Round53B(s, m, e, BigBits(m))

\* the double of an integer
Doble(n) == Canon(IF n < 0 THEN -1 ELSE 1, BigInt(IF n < 0 THEN -n ELSE n), 0)

EsCero(x) == x.k = "num" /\ x.m = << >>

\* x * y
Fmul(x, y) ==
    IF x.k = "nan" \/ y.k = "nan" THEN NaN
    ELSE IF x.k = "inf" \/ y.k = "inf"
    THEN (IF EsCero(x) \/ EsCero(y) THEN NaN ELSE Inf(x.s * y.s))
    ELSE Round53(x.s * y.s, BigMul(x.m, y.m), x.e + y.e)

FdivQ(s, e, d) ==
    Round53(s, BigAdd(BigMulSmall(d.q, 2), IF d.r # 0 THEN <<1>> ELSE << >>), e)

FdivK(x, y, k) ==
    FdivQ(x.s * y.s, x.e - y.e - k - 1, BigDivSmall(BigShl(x.m, k), y.m[1]))

\* x / y; the divisors of the program are integers below 2^15, or such an
\* integer times a power of two
Fdiv(x, y) ==
    IF x.k = "nan" \/ y.k = "nan" THEN NaN
    ELSE IF x.k = "inf" THEN (IF y.k = "inf" THEN NaN ELSE Inf(x.s * y.s))
    ELSE IF y.k = "inf" THEN Cero
    ELSE IF EsCero(y) THEN (IF EsCero(x) THEN NaN ELSE Inf(x.s))
    ELSE IF EsCero(x) THEN Cero
    ELSE FdivK(x, y, IF BigBits(x.m) >= 72 THEN 0 ELSE 72 - BigBits(x.m))

\* s * (a - b) * 2^e for a >= b, and t * (b - a) * 2^e otherwise
FaddDif(s, t, a, b, e, c) ==
    IF c >= 0 THEN Round53(s, BigSub(a, b), e) ELSE Round53(t, BigSub(b, a), e)

FaddAB(s, t, a, b, e) ==
    IF s = t THEN Round53(s, BigAdd(a, b), e)
    ELSE FaddDif(s, t, a, b, e, BigCmp(a, b))

FaddE(x, y, e) == FaddAB(x.s, y.s, BigShl(x.m, x.e - e), BigShl(y.m, y.e - e), e)

\* x + y
Fadd(x, y) ==
    IF x.k = "nan" \/ y.k = "nan" THEN NaN
    ELSE IF x.k = "inf" THEN (IF y.k = "inf" /\ y.s # x.s THEN NaN ELSE x)
    ELSE IF y.k = "inf" THEN y
    ELSE IF EsCero(x) THEN y
    ELSE IF EsCero(y) THEN x
    ELSE FaddE(x, y, IF x.e < y.e THEN x.e ELSE y.e)


\* x || y : x unless it is NaN or zero
OrNum(x, y) == IF x.k = "nan" \/ EsCero(x) THEN y ELSE x

RedondeoN(n, e) ==
    IF e >= 0 THEN BigToInt(BigShl(n, e))
    ELSE BigToInt(BigShr(BigAdd(n, BigShl(<<1>>, (-e) - 1)), -e))

\* floor(|x| * 10^d + 1/2) for a finite x and d in 1..2: the digits that
\* toFixed(d) and a two-decimal number format print, the nearest, the one
\* away from zero of two equally near
Redondeo(x, d) == RedondeoN(BigMulSmall(x.m, 10^d), x.e)

\* a JSON number as a double; a missing field is undefined, NaN in arithmetic
ANumero(x) == IF x.t = "num" THEN Doble(x.n) ELSE NaN

\* The digits a number is printed with at d decimals: its sign and the
\* rounded magnitude in units of 10^-d; NaN and the infinities print as such
Decimales(x, d) ==
    IF x.k = "num"
    THEN [t |-> "num", neg |-> x.s = -1, n |-> Redondeo(x, d)]
    ELSE [t |-> x.k, neg |-> x.s = -1, n |-> 0]

\* Number.prototype.toFixed(1)
toFixed1(x) == Decimales(x, 1)

\* formatearMoneda: "$0.00" for NaN, two decimals otherwise
formatearMoneda(x) == IF x.k = "nan" THEN Decimales(Cero, 2) ELSE Decimales(x, 2)

\* A percentage guarded by total # 0 instead of total > 0
porcentajeMal(total_mxn, total) ==
    IF total # 0
    THEN toFixed1(Fmul(Fdiv(ANumero(total_mxn), Doble(total)), Doble(100)))
    ELSE toFixed1(Cero)

\* totalProyectoGlobal > 0 ? (cat.total_mxn / totalProyectoGlobal * 100) : 0
\* and its toFixed(1)
porcentaje(total_mxn, total) ==
    IF total > 0
    THEN toFixed1(Fmul(Fdiv(ANumero(total_mxn), Doble(total)), Doble(100)))
    ELSE toFixed1(Cero)

----------------------------------------------------------------------------
(* The line-item form: the value of a number field is empty or the text of
   a number, which parseFloat reads back as that number *)

TextoVacio == [t |-> "vacio", x |-> Cero]
Texto(x) == [t |-> "num", x |-> x]

parseFloat(v) == IF v.t = "vacio" THEN NaN ELSE v.x

SinImporte == [t |-> "vacio", neg |-> FALSE, n |-> 0]

ModalInicial ==
    [activo |-> FALSE, id |-> Null,
     cantidad |-> TextoVacio, unitario |-> TextoVacio, sobrecosto |-> TextoVacio,
     iva |-> TextoVacio, tc |-> TextoVacio,
     importe |-> SinImporte, totalMxn |-> SinImporte]

\* calcularTotales from total on
TotalesF(sobrecostoPct, ivaPct, tc, importeSinIva, sobrecosto, baseConSobrecosto, iva, total) ==
    [sobrecostoPct |-> sobrecostoPct, ivaPct |-> ivaPct,
     importeSinIva |-> importeSinIva, sobrecosto |-> sobrecosto,
     baseConSobrecosto |-> baseConSobrecosto, iva |-> iva, total |-> total,
     totalMxn |-> Fmul(total, tc)]

\* calcularTotales from iva on
TotalesE(sobrecostoPct, ivaPct, tc, importeSinIva, sobrecosto, baseConSobrecosto, iva) ==
    TotalesF(sobrecostoPct, ivaPct, tc, importeSinIva, sobrecosto, baseConSobrecosto, iva,
             Fadd(baseConSobrecosto, iva))

\* calcularTotales from baseConSobrecosto on
TotalesD(sobrecostoPct, ivaPct, tc, importeSinIva, sobrecosto, baseConSobrecosto) ==
    TotalesE(sobrecostoPct, ivaPct, tc, importeSinIva, sobrecosto, baseConSobrecosto,
             Fmul(baseConSobrecosto, ivaPct))

\* calcularTotales from sobrecosto on
TotalesC(sobrecostoPct, ivaPct, tc, importeSinIva, sobrecosto) ==
    TotalesD(sobrecostoPct, ivaPct, tc, importeSinIva, sobrecosto,
             Fadd(importeSinIva, sobrecosto))

\* calcularTotales from importeSinIva on
TotalesB(sobrecostoPct, ivaPct, tc, importeSinIva) ==
    TotalesC(sobrecostoPct, ivaPct, tc, importeSinIva, Fmul(importeSinIva, sobrecostoPct))

\* Totals that take an empty or zero exchange rate as zero
TotalesTcCero(m) ==
    TotalesB(OrNum(Fdiv(parseFloat(m.sobrecosto), Doble(100)), Cero),
             OrNum(Fdiv(parseFloat(m.iva), Doble(100)), Cero),
             OrNum(parseFloat(m.tc), Cero),
             Fmul(OrNum(parseFloat(m.cantidad), Cero), OrNum(parseFloat(m.unitario), Cero)))

\* The locals of calcularTotales for the fields of the form m
Totales(m) ==
    TotalesB(OrNum(Fdiv(parseFloat(m.sobrecosto), Doble(100)), Cero),
             OrNum(Fdiv(parseFloat(m.iva), Doble(100)), Cero),
             OrNum(parseFloat(m.tc), Doble(1)),
             Fmul(OrNum(parseFloat(m.cantidad), Cero), OrNum(parseFloat(m.unitario), Cero)))

\* the two read-only fields calcularTotales fills
ponerTotales(s, r) ==
    [s EXCEPT !.dom.modal.importe = formatearMoneda(r.importeSinIva),
              !.dom.modal.totalMxn = formatearMoneda(r.totalMxn)]

calcularTotales(s) == ponerTotales(s, Totales(s.dom.modal))

\* The numbers of the datos object guardarPartida sends
DatosFormulario(m) ==
    [cantidad |-> OrNum(parseFloat(m.cantidad), Cero),
     unitario |-> OrNum(parseFloat(m.unitario), Cero),
     sobrecosto_pct |-> OrNum(Fdiv(parseFloat(m.sobrecosto), Doble(100)), Cero),
     iva_pct |-> OrNum(Fdiv(parseFloat(m.iva), Doble(100)), Cero),
     tipo_cambio |-> OrNum(parseFloat(m.tc), Doble(1))]

----------------------------------------------------------------------------
(* The state record the handlers transform *)

Cur == [estado |-> estado, glosario |-> glosario, exp |-> estadoExpansion,
        fr |-> filtrosResumen, tpg |-> totalProyectoGlobal, glob |-> globales,
        dom |-> dom, tasks |-> tasks, sent |-> << >>, notice |-> 0, unhandled |-> 0]

Commit(s) ==
    /\ estado' = s.estado
    /\ glosario' = s.glosario
    /\ estadoExpansion' = s.exp
    /\ filtrosResumen' = s.fr
    /\ totalProyectoGlobal' = s.tpg
    /\ globales' = s.glob
    /\ dom' = s.dom
    /\ tasks' = s.tasks

\* A user action starts only while fewer than MaxTasks calls are suspended
\* and the behaviour has user actions left; a response is always processed.
Libre == Len(tasks) < MaxTasks /\ acciones < MaxAcciones

Usuario(s) == Libre /\ Commit(s) /\ acciones' = acciones + 1

Respuesta(s) == Commit(s) /\ UNCHANGED acciones

\* A request: method, endpoint, the project id and names of its path, its
\* query parameters and the id of a /partidas/{id} path.
Req(m, ep, pid, cat, con, params, id) ==
    [m |-> m, ep |-> ep, pid |-> pid, cat |-> cat, con |-> con, params |-> params,
     id |-> id, body |-> Null]

\* A suspended async call: the await it is at (k), its request, its local
\* arguments and the callers that continue when it returns (ret).
Task(k, req, cat, con, ret) == [k |-> k, req |-> req, cat |-> cat, con |-> con, ret |-> ret]

\* fetchAPI up to its await: the request goes out and the caller suspends.
fetchAPI(s, task) ==
    [s EXCEPT !.tasks = Append(@, task), !.sent = Append(@, task.req)]

Quitar(q, i) == SubSeq(q, 1, i - 1) \o SubSeq(q, i + 1, Len(q))

\* A query that carries the three filters, empty or not
ParamsResumenTodos(fr) ==
    {<<"torre", fr.torre>>, <<"piso", fr.piso>>, <<"depto", fr.depto>>}

\* URLSearchParams of the three summary filters: only the non-empty ones
ParamsResumen(fr) ==
    {p \in {<<"torre", fr.torre>>, <<"piso", fr.piso>>, <<"depto", fr.depto>>} :
        p[2] # << >>}

\* Promise.all over fetchAPI calls up to its await: every request goes out
\* and the caller suspends on the batch.
fetchTodos(s, task, reqs) ==
    [s EXCEPT !.tasks = Append(@, task), !.sent = @ \o reqs]

ExpansionVacia == [categorias |-> MapaVacio, conceptos |-> MapaVacio]
FiltrosVacios == [torre |-> << >>, piso |-> << >>, depto |-> << >>]

----------------------------------------------------------------------------
(* Resumen jerarquico: the tree in #arbol-resumen *)

ContenedorVacio == [modo |-> "comentario", items |-> << >>]

\* 'Sin categoria' and 'Sin concepto', the labels of a node without name
SinCategoria == <<"S", "i", "n", " ", "c", "a", "t", "e", "g", "o", "r", "i", "a">>
SinConcepto == <<"S", "i", "n", " ", "c", "o", "n", "c", "e", "p", "t", "o">>
ArbolPlaceholder == [modo |-> "placeholder", items |-> << >>]

\* The argument an inline onclick passes: the attribute text is cut at a
\* double quote, its character references are resolved, and what is left
\* between the single quotes is read as a string literal.
OnclickArg(nombre) ==
    LET txt == escapeJs(nombre)
    IN  IF Contiene(txt, "\"") THEN [ok |-> FALSE, v |-> << >>]
        ELSE JsLiteral(HtmlDecode(txt))

\* document.getElementById(id) among the concept containers: the first
\* category item, in document order, whose container has that id (0: none).
BuscarContenedor(arbol, id) ==
    LET hits == {i \in 1..Len(arbol.items) : arbol.items[i].id = id}
    IN  IF hits = {} THEN 0 ELSE CHOOSE i \in hits : \A j \in hits : i <= j

\* The first detail container with that id, as <<category index, concept index>>
BuscarDetalles(arbol, id) ==
    LET hits == {p \in {<<i, j>> : i \in 1..Len(arbol.items), j \in 1..2} :
                    /\ p[2] <= Len(arbol.items[p[1]].hijos.items)
                    /\ arbol.items[p[1]].hijos.items[p[2]].id = id}
    IN  IF hits = {} THEN <<0, 0>>
        ELSE CHOOSE p \in hits : \A q \in hits :
                 p[1] < q[1] \/ (p[1] = q[1] /\ p[2] <= q[2])

cargarDetallesConcepto(s, categoria, concepto) ==
    fetchAPI(s, Task("detalles",
                     Req("GET", "resumen-jerarquico/categoria/concepto",
                         s.estado.proyectoActual, categoria, concepto,
                         ParamsResumen(s.fr), Null),
                     categoria, concepto, << >>))

renderizarDetalles(s, categoria, concepto, detalles) ==
    LET p == BuscarDetalles(s.dom.arbol, IdDetalles(categoria, concepto))
    IN  IF p = <<0, 0>> THEN s
        ELSE [s EXCEPT !.dom.arbol.items[p[1]].hijos.items[p[2]].det =
                 [modo |-> IF detalles = << >> THEN "sin" ELSE "lista",
                  cat |-> categoria, con |-> concepto]]

RECURSIVE CargarDetallesDe(_, _, _)
\* conceptos.forEach(con => { if (estadoExpansion.conceptos[key]) cargarDetallesConcepto(...) })
CargarDetallesDe(s, categoria, conceptos) ==
    IF conceptos = << >> THEN s
    ELSE CargarDetallesDe(
           IF Get(s.exp.conceptos, ClaveConcepto(categoria, Head(conceptos)))
           THEN cargarDetallesConcepto(s, categoria, Head(conceptos))
           ELSE s,
           categoria, Tail(conceptos))

\* The texts the template of a concept interpolates from the two names, in
\* order: data-concepto, the two onclick arguments, title, the label and the
\* id of the details container
TextosConcepto(categoria, con) ==
    << escapeHtml(con), escapeJs(categoria), escapeJs(con), escapeHtml(con),
       escapeHtml(IF con = << >> THEN SinConcepto ELSE con),
       IdDetalles(categoria, con) >>

ItemConcepto(s, categoria, con) ==
    [textos |-> TextosConcepto(categoria, con),
     dataCon |-> AttrValue(escapeHtml(con)),
     onclickCat |-> OnclickArg(categoria),
     onclickCon |-> OnclickArg(con),
     cls |-> Get(s.exp.conceptos, ClaveConcepto(categoria, con)),
     id |-> AttrValue(IdDetalles(categoria, con)),
     det |-> [modo |-> "comentario", cat |-> << >>, con |-> << >>]]

renderizarConceptos(s, categoria, conceptos) ==
    LET i == BuscarContenedor(s.dom.arbol, IdConceptos(categoria))
    IN  IF i = 0 THEN s
        ELSE IF conceptos = << >>
             THEN [s EXCEPT !.dom.arbol.items[i].hijos = [modo |-> "sin", items |-> << >>]]
             ELSE CargarDetallesDe(
                    [s EXCEPT !.dom.arbol.items[i].hijos =
                        [modo |-> "lista",
                         items |-> [n \in 1..Len(conceptos) |->
                                       ItemConcepto(s, categoria, conceptos[n])]]],
                    categoria, conceptos)

cargarConceptosCategoria(s, categoria) ==
    fetchAPI(s, Task("conceptosCat",
                     Req("GET", "resumen-jerarquico/categoria",
                         s.estado.proyectoActual, categoria, << >>,
                         ParamsResumen(s.fr), Null),
                     categoria, << >>, << >>))

RECURSIVE CargarConceptosDe(_, _)
\* Object.keys(estadoExpansion.categorias).forEach(cat => { if (...[cat]) cargarConceptosCategoria(cat) })
CargarConceptosDe(s, claves) ==
    IF claves = << >> THEN s
    ELSE CargarConceptosDe(
           IF Get(s.exp.categorias, Head(claves))
           THEN cargarConceptosCategoria(s, Head(claves))
           ELSE s,
           Tail(claves))

\* The texts the template of a category interpolates from the name, in order:
\* data-categoria, the onclick argument, title, the label and the id of the
\* concepts container
TextosCategoria(categoria) ==
    << escapeHtml(categoria), escapeJs(categoria), escapeHtml(categoria),
       escapeHtml(IF categoria = << >> THEN SinCategoria ELSE categoria),
       IdConceptos(categoria) >>

ItemCategoria(s, cat) ==
    [textos |-> TextosCategoria(cat.categoria),
     dataCat |-> AttrValue(escapeHtml(cat.categoria)),
     onclick |-> OnclickArg(cat.categoria),
     cls |-> Get(s.exp.categorias, cat.categoria),
     pct |-> porcentaje(cat.total_mxn, s.tpg),
     total |-> formatearMoneda(ANumero(cat.total_mxn)),
     id |-> AttrValue(IdConceptos(cat.categoria)),
     hijos |-> ContenedorVacio]

\* A render that loads the concepts of the expanded keys present in data only
renderizarCategoriasPresentes(s, data) ==
    IF data.categorias = << >>
    THEN [s EXCEPT !.dom.arbol = [modo |-> "vacio", items |-> << >>]]
    ELSE CargarConceptosDe(
           [s EXCEPT !.dom.arbol =
               [modo |-> "lista",
                items |-> [n \in 1..Len(data.categorias) |->
                              ItemCategoria(s, data.categorias[n])]]],
           SetToSeq({k \in DOMAIN s.exp.categorias :
                        \E n \in 1..Len(data.categorias) :
                            data.categorias[n].categoria = k}))

renderizarCategorias(s, data) ==
    IF data.categorias = << >>
    THEN [s EXCEPT !.dom.arbol = [modo |-> "vacio", items |-> << >>]]
    ELSE CargarConceptosDe(
           [s EXCEPT !.dom.arbol =
               [modo |-> "lista",
                items |-> [n \in 1..Len(data.categorias) |->
                              ItemCategoria(s, data.categorias[n])]]],
           SetToSeq(DOMAIN s.exp.categorias))

\* querySelector(`[data-categoria="${escapeHtml(categoria)}"]`): first match
actualizarVistaCategoria(s, categoria) ==
    LET hits == {i \in 1..Len(s.dom.arbol.items) :
                    s.dom.arbol.items[i].dataCat = escapeHtml(categoria)}
    IN  IF hits = {} THEN s
        ELSE LET i == CHOOSE x \in hits : \A y \in hits : x <= y
             IN  [s EXCEPT !.dom.arbol.items[i].cls = Get(s.exp.categorias, categoria)]

\* Object.keys(estadoExpansion.conceptos).forEach: keys that start with
\* categoria + ':' are set to false
\* A collapse that leaves the concept keys as they are
ColapsarConceptosNinguno(conceptos, categoria) == conceptos

ColapsarConceptos(conceptos, categoria) ==
    [key \in DOMAIN conceptos |->
        IF StartsWith(key, categoria \o <<":">>) THEN FALSE ELSE conceptos[key]]

\* A toggle that reuses the concepts rendered by an earlier expand
toggleCategoriaCache(s, categoria) ==
    LET i == BuscarContenedor(s.dom.arbol, IdConceptos(categoria))
    IN  IF Get(s.exp.categorias, categoria)
        THEN actualizarVistaCategoria(
               [s EXCEPT !.exp.categorias = Put(@, categoria, FALSE),
                         !.exp.conceptos = ColapsarConceptos(@, categoria)],
               categoria)
        ELSE IF i # 0 /\ s.dom.arbol.items[i].hijos.modo = "lista"
        THEN actualizarVistaCategoria(
               [s EXCEPT !.exp.categorias = Put(@, categoria, TRUE)], categoria)
        ELSE cargarConceptosCategoria(
               actualizarVistaCategoria(
                 [s EXCEPT !.exp.categorias = Put(@, categoria, TRUE)], categoria),
               categoria)

toggleCategoria(s, categoria) ==
    IF Get(s.exp.categorias, categoria)
    THEN actualizarVistaCategoria(
           [s EXCEPT !.exp.categorias = Put(@, categoria, FALSE),
                     !.exp.conceptos = ColapsarConceptos(@, categoria)],
           categoria)
    ELSE cargarConceptosCategoria(
           actualizarVistaCategoria(
             [s EXCEPT !.exp.categorias = Put(@, categoria, TRUE)], categoria),
           categoria)

actualizarVistaConcepto(s, categoria, concepto) ==
    LET i == BuscarContenedor(s.dom.arbol, IdConceptos(categoria))
    IN  IF i = 0 THEN s
        ELSE LET its == s.dom.arbol.items[i].hijos.items
                 hits == {j \in 1..Len(its) : its[j].dataCon = escapeHtml(concepto)}
             IN  IF hits = {} THEN s
                 ELSE LET j == CHOOSE x \in hits : \A y \in hits : x <= y
                      IN  [s EXCEPT !.dom.arbol.items[i].hijos.items[j].cls =
                              Get(s.exp.conceptos, ClaveConcepto(categoria, concepto))]

toggleConcepto(s, categoria, concepto) ==
    LET key == ClaveConcepto(categoria, concepto)
    IN  IF Get(s.exp.conceptos, key)
        THEN actualizarVistaConcepto(
               [s EXCEPT !.exp.conceptos = Put(@, key, FALSE)], categoria, concepto)
        ELSE cargarDetallesConcepto(
               actualizarVistaConcepto(
                 [s EXCEPT !.exp.conceptos = Put(@, key, TRUE)], categoria, concepto),
               categoria, concepto)

----------------------------------------------------------------------------
(* Project, line items and filters *)

SinDatos == [pid |-> Null, lista |-> << >>]
SinPartidas == [pid |-> Null, categoria |-> << >>, concepto |-> << >>, ids |-> {}]
SelectVacio == [ops |-> << >>, val |-> << >>]

limpiarResumenJerarquico(s) ==
    [s EXCEPT !.dom.arbol = ArbolPlaceholder,
              !.dom.filtrosOcultos = TRUE,
              !.exp = ExpansionVacia,
              !.fr = FiltrosVacios]

limpiarGlosario(s) ==
    [s EXCEPT !.glosario = SinDatos, !.dom.glosarioView = "placeholder"]

limpiarVista(s) ==
    limpiarGlosario(
      limpiarResumenJerarquico(
        [s EXCEPT !.dom.resumen = Null,
                  !.dom.selCat = SelectVacio,
                  !.dom.selCon = SelectVacio,
                  !.dom.tbody = [modo |-> "placeholder", partidas |-> SinPartidas]]))

renderizarGlosario(s) ==
    [s EXCEPT !.dom.glosarioView =
        IF s.estado.proyectoActual = Null THEN "placeholder"
        ELSE IF s.glosario.lista = << >> THEN "vacio" ELSE "lista"]

\* What runs after the awaited cargarProyecto returns to its caller
finProyecto(s, ret) ==
    IF ret # << >> /\ Head(ret) = "change"
    THEN [s EXCEPT !.dom.btnNueva = TRUE]
    ELSE s

\* cargarProyecto after cargarResumenJerarquico or the skipped tab check
despuesResumenJ(s, ret) ==
    IF ret # << >> /\ Head(ret) = "cargarProyecto"
    THEN finProyecto(IF s.dom.tab = "glosario" THEN renderizarGlosario(s) ELSE s,
                     Tail(ret))
    ELSE s

\* mostrarFiltrosBeachfront up to its await
mostrarFiltrosBeachfront(s) ==
    IF s.estado.proyectoActual # Null
    THEN LET pid == s.estado.proyectoActual
         IN  fetchTodos(s,
                 Task("filtrosBF", Req("GET", "torres", pid, << >>, << >>, {}, Null),
                      << >>, << >>, << >>),
                 << Req("GET", "torres", pid, << >>, << >>, {}, Null),
                    Req("GET", "pisos", pid, << >>, << >>, {}, Null),
                    Req("GET", "deptos", pid, << >>, << >>, {}, Null) >>)
    ELSE [s EXCEPT !.dom.filtrosOcultos = TRUE]

\* cargarResumenJerarquico up to its await
cargarResumenJerarquico(s, ret) ==
    IF s.estado.proyectoActual = Null
    THEN despuesResumenJ(limpiarResumenJerarquico(s), ret)
    ELSE fetchAPI(s, Task("resumenJ",
                          Req("GET", "resumen-jerarquico", s.estado.proyectoActual,
                              << >>, << >>, ParamsResumen(s.fr), Null),
                          << >>, << >>, ret))

\* cargarProyecto after the awaited cargarPartidas
despuesPartidas(s, ret) ==
    IF ret # << >> /\ Head(ret) = "cargarProyecto"
    THEN IF s.dom.tab = "resumen"
         THEN cargarResumenJerarquico(s, ret)
         ELSE despuesResumenJ(s, ret)
    ELSE s

ParamsPartidas(e) ==
    {p \in {<<"categoria", e.filtroCategoria>>, <<"concepto", e.filtroConcepto>>} :
        p[2] # << >>}

\* cargarPartidas up to its await
cargarPartidas(s, ret) ==
    IF s.estado.proyectoActual = Null
    THEN despuesPartidas(s, ret)
    ELSE fetchAPI(s, Task("partidas",
                          Req("GET", "partidas", s.estado.proyectoActual,
                              << >>, << >>, ParamsPartidas(s.estado), Null),
                          << >>, << >>, ret))

mostrarPartidas(s, partidas) ==
    [s EXCEPT !.dom.tbody =
        [modo |-> IF partidas.ids = {} THEN "vacio" ELSE "lista",
         partidas |-> partidas]]

\* A category filter handler that stops after cargarConceptos
despuesConceptosNada(s, ret) == s

\* The category filter handler after the awaited cargarConceptos
despuesConceptos(s, ret) ==
    IF ret # << >> /\ Head(ret) = "filtroCategoria"
    THEN cargarPartidas(s, Tail(ret))
    ELSE s

\* cargarConceptos up to its await
cargarConceptos(s, ret) ==
    IF s.estado.proyectoActual = Null
    THEN despuesConceptos(s, ret)
    ELSE fetchAPI(s, Task("conceptos",
                          Req("GET", "conceptos", s.estado.proyectoActual,
                              << >>, << >>,
                              {p \in {<<"categoria", s.estado.filtroCategoria>>} : p[2] # << >>},
                              Null),
                          << >>, << >>, ret))

actualizarFiltroCategorias(s, categorias) ==
    [s EXCEPT !.dom.selCat = [ops |-> categorias.lista, val |-> << >>]]

actualizarFiltroConceptos(s, conceptos) ==
    [s EXCEPT !.dom.selCon = [ops |-> conceptos.lista, val |-> << >>]]

mostrarResumen(s, resumen) == [s EXCEPT !.dom.resumen = resumen]

\* A load that keeps the summary filters and the expansion flags
cargarProyectoSinReset(s, proyectoId, ret) ==
    fetchTodos(s,
               Task("batch", Req("GET", "resumen", proyectoId, << >>, << >>, {}, Null),
                    << >>, << >>, <<"cargarProyecto">> \o ret),
               << Req("GET", "resumen", proyectoId, << >>, << >>, {}, Null),
                  Req("GET", "categorias", proyectoId, << >>, << >>, {}, Null),
                  Req("GET", "glosario", proyectoId, << >>, << >>, {}, Null) >>)

\* cargarProyecto up to its await on Promise.all
cargarProyecto(s, proyectoId, ret) ==
    fetchTodos([s EXCEPT !.fr = FiltrosVacios, !.exp = ExpansionVacia],
               Task("batch", Req("GET", "resumen", proyectoId, << >>, << >>, {}, Null),
                    << >>, << >>, <<"cargarProyecto">> \o ret),
               << Req("GET", "resumen", proyectoId, << >>, << >>, {}, Null),
                  Req("GET", "categorias", proyectoId, << >>, << >>, {}, Null),
                  Req("GET", "glosario", proyectoId, << >>, << >>, {}, Null) >>)


----------------------------------------------------------------------------
(* Continuations: what each suspended call does when its request settles *)

\* A batch whose categories are applied even when it failed
contBatchParcial(s, task, ok, data) ==
    IF ok
    THEN cargarPartidas(
           actualizarFiltroCategorias(
             mostrarResumen(
               [s EXCEPT !.estado.categorias = data.categorias,
                         !.glosario = data.glosario],
               data.resumen),
             data.categorias),
           task.ret)
    ELSE finProyecto(
           actualizarFiltroCategorias(
             [s EXCEPT !.estado.categorias = data.categorias], data.categorias),
           Tail(task.ret))

\* cargarProyecto from the settled Promise.all on
contBatch(s, task, ok, data) ==
    IF ok
    THEN cargarPartidas(
           actualizarFiltroCategorias(
             mostrarResumen(
               [s EXCEPT !.estado.categorias = data.categorias,
                         !.glosario = data.glosario],
               data.resumen),
             data.categorias),
           task.ret)
    ELSE finProyecto(s, Tail(task.ret))

\* A continuation that drops the line items of a project no longer selected
contPartidasVigente(s, task, ok, data) ==
    IF ok /\ data.pid = s.estado.proyectoActual
    THEN despuesPartidas(mostrarPartidas([s EXCEPT !.estado.partidas = data], data),
                         task.ret)
    ELSE despuesPartidas(s, task.ret)

contPartidas(s, task, ok, data) ==
    IF ok
    THEN despuesPartidas(mostrarPartidas([s EXCEPT !.estado.partidas = data], data),
                         task.ret)
    ELSE despuesPartidas(s, task.ret)

contConceptos(s, task, ok, data) ==
    IF ok
    THEN despuesConceptos(
           actualizarFiltroConceptos([s EXCEPT !.estado.conceptos = data], data),
           task.ret)
    ELSE despuesConceptos(s, task.ret)

contResumenJ(s, task, ok, data) ==
    IF ok
    THEN despuesResumenJ(
           mostrarFiltrosBeachfront(
             renderizarCategorias(
               [s EXCEPT !.tpg = OrCero(data.total_proyecto)], data)),
           task.ret)
    ELSE despuesResumenJ(s, task.ret)

\* tiene: some of the three lists is non-empty
contFiltrosBF(s, task, ok, tiene) ==
    [s EXCEPT !.dom.filtrosOcultos = ~(ok /\ tiene)]

contConceptosCat(s, task, ok, conceptos) ==
    IF ok THEN renderizarConceptos(s, task.cat, conceptos) ELSE s

contDetalles(s, task, ok, detalles) ==
    IF ok THEN renderizarDetalles(s, task.cat, task.con, detalles) ELSE s

contEliminar(s, task, ok) ==
    IF ok
    THEN cargarProyecto(s, s.estado.proyectoActual, <<"eliminar">>)
    ELSE [s EXCEPT !.notice = @ + 1]

----------------------------------------------------------------------------
(* Suppliers and quotations *)

ReqSimple(m, ep, nombre, id) == Req(m, ep, Null, nombre, << >>, {}, id)

\* cargarProveedoresGlobal up to its await
cargarProveedoresGlobal(s) ==
    fetchAPI(s, Task("proveedoresGlobal", ReqSimple("GET", "proveedores-global", << >>, Null),
                     << >>, << >>, << >>))

\* One card per supplier of each category, in document order
TarjetasProveedor(lista) ==
    IF lista = << >> THEN << >>
    ELSE [n \in 1..Len(Head(lista).proveedores) |->
             [onclick |-> OnclickArg(Head(lista).proveedores[n]),
              nombre |-> escapeHtml(Head(lista).proveedores[n])]]

renderizarProveedoresGlobal(s) ==
    IF s.glob.proveedoresGlobal = << >>
    THEN [s EXCEPT !.dom.proveedores = [modo |-> "vacio", items |-> << >>]]
    ELSE [s EXCEPT !.dom.proveedores =
             [modo |-> "lista", items |-> TarjetasProveedor(s.glob.proveedoresGlobal)]]

contProveedoresGlobal(s, task, ok, data) ==
    IF ok
    THEN renderizarProveedoresGlobal([s EXCEPT !.glob.proveedoresGlobal = data])
    ELSE [s EXCEPT !.dom.proveedores = [modo |-> "error", items |-> << >>]]

\* verDetalleProveedor up to its await
verDetalleProveedor(s, proveedor) ==
    fetchAPI([s EXCEPT !.dom.modalProveedor =
                 [activo |-> TRUE, titulo |-> proveedor,
                  contenido |-> "cargando", de |-> << >>]],
             Task("estadisticas",
                  ReqSimple("GET", "proveedores-global/estadisticas", proveedor, Null),
                  proveedor, << >>, << >>))

\* r: "ok", "malformado" (the answer has no list of projects, so building
\* the markup throws inside the try) or "fallo"
contEstadisticas(s, task, r) ==
    IF r = "ok"
    THEN [s EXCEPT !.dom.modalProveedor.contenido = "datos",
                   !.dom.modalProveedor.de = task.cat]
    ELSE [s EXCEPT !.dom.modalProveedor.contenido = "error",
                   !.dom.modalProveedor.de = << >>]

cerrarModalProveedor(s) == [s EXCEPT !.dom.modalProveedor.activo = FALSE]

\* A procesarCotizacion without its finally
finProcesarNada(s, ret) == s

\* procesarCotizacion from its finally on
finProcesar(s, ret) ==
    IF ret = <<"procesarCotizacion">>
    THEN [s EXCEPT !.dom.modalSubir.btnDisabled = FALSE,
                   !.dom.modalSubir.btnLoading = FALSE]
    ELSE s

\* cargarFiltrosCotizaciones up to its first await
cargarFiltrosCotizaciones(s, ret) ==
    fetchAPI(s, Task("filtrosProyectos", ReqSimple("GET", "proyectos", << >>, Null),
                     << >>, << >>, ret))

contFiltrosProyectos(s, task, ok, proyectos) ==
    IF ok
    THEN fetchAPI([s EXCEPT !.dom.filtrosCot.proyectos = proyectos,
                            !.dom.filtrosCot.proyecto = Null],
                  Task("filtrosProveedores",
                       ReqSimple("GET", "cotizaciones/proveedores", << >>, Null),
                       << >>, << >>, task.ret))
    ELSE finProcesar(s, task.ret)

contFiltrosProveedores(s, task, ok, proveedores) ==
    finProcesar(
      IF ok
      THEN [s EXCEPT !.glob.proveedoresCotizaciones = proveedores,
                     !.dom.filtrosCot.proveedores = proveedores,
                     !.dom.filtrosCot.proveedor = << >>]
      ELSE s,
      task.ret)

\* procesarCotizacion after the awaited cargarCotizaciones
despuesCotizaciones(s, ret) ==
    IF ret = <<"procesarCotizacion">> THEN cargarFiltrosCotizaciones(s, ret) ELSE s

\* cargarCotizaciones up to its await
cargarCotizaciones(s, ret) ==
    fetchAPI(s, Task("cotizaciones",
                     Req("GET", "cotizaciones", Null, << >>, << >>,
                         (IF s.dom.filtrosCot.proyecto # Null
                          THEN {<<"proyecto_id", s.dom.filtrosCot.proyecto>>} ELSE {})
                         \cup (IF s.dom.filtrosCot.proveedor # << >>
                               THEN {<<"proveedor", s.dom.filtrosCot.proveedor>>} ELSE {}),
                         Null),
                     << >>, << >>, ret))

renderizarCotizaciones(s) ==
    [s EXCEPT !.dom.cotizacionesLista =
        [modo |-> IF s.glob.cotizaciones = << >> THEN "vacio" ELSE "lista",
         ids |-> s.glob.cotizaciones]]

contCotizaciones(s, task, ok, data) ==
    despuesCotizaciones(
      IF ok THEN renderizarCotizaciones([s EXCEPT !.glob.cotizaciones = data]) ELSE s,
      task.ret)

\* procesarCotizacion after the awaited verItemsCotizacion
despuesItems(s, ret) ==
    IF ret = <<"procesarCotizacion">> THEN cargarCotizaciones(s, ret) ELSE s

\* verItemsCotizacion up to its await on Promise.all
verItemsCotizacion(s, cotizacionId, ret) ==
    fetchTodos(s, Task("items", ReqSimple("GET", "cotizacion", << >>, cotizacionId),
                       << >>, << >>, ret),
               << ReqSimple("GET", "cotizacion", << >>, cotizacionId),
                  ReqSimple("GET", "cotizacion/items", << >>, cotizacionId) >>)

\* tbody.innerHTML = items.map(...): one row per item, none of them editable;
\* the rows that suspended calls of editarItemCotizacion hold are no longer in
\* the document
renderizarItemsCotizacion(s, items) ==
    [s EXCEPT !.dom.modalItems.filas = items,
              !.dom.modalItems.editando = {},
              !.tasks = [n \in 1..Len(@) |->
                            IF @[n].k = "editarItem"
                            THEN [@[n] EXCEPT !.con = <<"suelta">>]
                            ELSE @[n]]]

contItems(s, task, ok) ==
    despuesItems(
      IF ok
      THEN [renderizarItemsCotizacion(
              [s EXCEPT !.glob.cotizacionActual = task.req.id], ItemIds)
            EXCEPT !.dom.modalItems.activo = TRUE,
                   !.dom.modalItems.cotizacion = task.req.id]
      ELSE [s EXCEPT !.notice = @ + 1],
      task.ret)

cerrarModalItemsCotizacion(s) ==
    [s EXCEPT !.dom.modalItems.activo = FALSE, !.glob.cotizacionActual = Null]

\* editarItemCotizacion up to its await, which is outside any try
editarItemCotizacion(s, itemId) ==
    IF itemId \notin s.dom.modalItems.filas THEN s
    ELSE IF s.glob.cotizacionActual = Null
    THEN [s EXCEPT !.unhandled = @ + 1]
    ELSE fetchAPI(s, Task("editarItem",
                          ReqSimple("GET", "cotizacion/items", << >>,
                                    s.glob.cotizacionActual),
                          <<itemId>>, <<"fila">>, << >>))

\* r: "ok", the item is in the answer; "sinItem", it is not; "fallo"
contEditarItem(s, task, r) ==
    CASE r = "fallo" -> [s EXCEPT !.unhandled = @ + 1]
      [] r = "sinItem" -> s
      [] OTHER ->
           IF s.glob.cotizacionActual = Null
           THEN [s EXCEPT !.unhandled = @ + 1]
           ELSE IF task.con = <<"fila">>
           THEN [s EXCEPT !.dom.modalItems.editando = @ \cup {task.cat[1]}]
           ELSE s

\* the awaited PUT or DELETE of an item settles; both handlers continue alike
contGuardarItem(s, task, ok) ==
    IF ~ok \/ s.glob.cotizacionActual = Null
    THEN [s EXCEPT !.notice = @ + 1]
    ELSE verItemsCotizacion(s, s.glob.cotizacionActual, << >>)

\* guardarItemCotizacion up to its await; cotizacionActual.moneda is read
\* before the try
guardarItemCotizacion(s, itemId) ==
    IF s.glob.cotizacionActual = Null
    THEN [s EXCEPT !.unhandled = @ + 1]
    ELSE fetchAPI(s, Task("guardarItem",
                          ReqSimple("PUT", "cotizaciones/items", << >>, itemId),
                          <<itemId>>, << >>, << >>))

\* eliminarItemCotizacion up to its await; confirma is the answer to confirm()
eliminarItemCotizacion(s, itemId, confirma) ==
    IF ~confirma THEN s
    ELSE fetchAPI(s, Task("eliminarItem",
                          ReqSimple("DELETE", "cotizaciones/items", << >>, itemId),
                          <<itemId>>, << >>, << >>))

cerrarModalSubirCotizacion(s) == [s EXCEPT !.dom.modalSubir.activo = FALSE]

\* mostrarModalSubirCotizacion up to its first await, which no try encloses
mostrarModalSubirCotizacion(s) ==
    fetchAPI(s, Task("subirProyectos", ReqSimple("GET", "proyectos", << >>, Null),
                     << >>, << >>, << >>))

\* cargarCategoriasParaCotizacion up to its first await
cargarCategoriasParaCotizacion(s) ==
    fetchAPI(s, Task("categoriasProyectos", ReqSimple("GET", "proyectos", << >>, Null),
                     << >>, << >>, << >>))

\* mostrarModalSubirCotizacion after the awaited cargarCategoriasParaCotizacion,
\* which has rendered one checkbox per category it gathered
finCategorias(s, todasCategorias) ==
    [s EXCEPT !.dom.modalSubir.categorias = todasCategorias,
              !.dom.modalSubir.activo = TRUE]

\* The categories request of the next project of the loop; cat holds the
\* categories gathered so far and con the projects still to ask
pedirCategorias(s, todasCategorias, proyectos) ==
    IF proyectos = << >> THEN finCategorias(s, todasCategorias)
    ELSE fetchAPI(s, Task("categoriasProyecto",
                          Req("GET", "categorias", Head(proyectos), << >>, << >>, {}, Null),
                          SetToSeq(todasCategorias), Tail(proyectos), << >>))

contSubirProyectos(s, task, ok, proyectos) ==
    IF ok
    THEN cargarCategoriasParaCotizacion([s EXCEPT !.dom.modalSubir.proyectos = proyectos])
    ELSE [s EXCEPT !.unhandled = @ + 1]

contCategoriasProyectos(s, task, ok, proyectos) ==
    IF ok THEN pedirCategorias(s, {}, proyectos) ELSE finCategorias(s, {})

contCategoriasProyecto(s, task, ok, categorias) ==
    IF ok
    THEN pedirCategorias(s, SeqToSet(task.cat) \cup SeqToSet(categorias), task.con)
    ELSE finCategorias(s, SeqToSet(task.cat))

\* procesarCotizacion up to its await; falta names the first required input
\* that is missing ("nada" when the form is complete)
procesarCotizacion(s, falta) ==
    IF falta # "nada" THEN [s EXCEPT !.notice = @ + 1]
    ELSE fetchAPI([s EXCEPT !.dom.modalSubir.btnDisabled = TRUE,
                            !.dom.modalSubir.btnLoading = TRUE],
                  Task("upload", ReqSimple("POST", "cotizaciones/upload", << >>, Null),
                       << >>, << >>, <<"procesarCotizacion">>))

\* r: "red" (fetch rejects), "json" (the body is not JSON), "http" (status
\* not ok), "items" (items extracted), "sinItems" (none extracted) or
\* "sinCotizacion" (items but no quotation record in the answer)
contUpload(s, task, r, cotizacionId) ==
    CASE r \in {"red", "json", "http"} ->
           finProcesar([s EXCEPT !.notice = @ + 1], task.ret)
      [] r = "items" ->
           verItemsCotizacion([cerrarModalSubirCotizacion(s) EXCEPT !.notice = @ + 1],
                              cotizacionId, task.ret)
      [] r = "sinItems" ->
           cargarCotizaciones([cerrarModalSubirCotizacion(s) EXCEPT !.notice = @ + 1],
                              task.ret)
      [] r = "sinCotizacion" ->
           finProcesar([cerrarModalSubirCotizacion(s) EXCEPT !.notice = @ + 2], task.ret)

----------------------------------------------------------------------------
(* What the server may answer *)

Cat1 == <<"A">>
Cat2 == <<"A", ":", "B">>
Con1 == <<"C">>
Con2 == <<"B", ":", "C">>

ListasCat == {<<Cat1>>}
ListasCon == {<<Con1>>}
ListasGlosario == {<<Cat1>>}

Param(req, nombre) ==
    IF \E p \in req.params : p[1] = nombre
    THEN (CHOOSE p \in req.params : p[1] = nombre)[2]
    ELSE << >>

DatosBatch(req) ==
    {[resumen |-> req.pid,
      categorias |-> [pid |-> req.pid, lista |-> lc],
      glosario |-> [pid |-> req.pid, lista |-> lg]] :
        lc \in ListasCat, lg \in ListasGlosario}

DatosPartidas(req) ==
    {[pid |-> req.pid, categoria |-> Param(req, "categoria"),
      concepto |-> Param(req, "concepto"), ids |-> ids] : ids \in {PartidaIds}}

DatosConceptos(req) == {[pid |-> req.pid, lista |-> l] : l \in ListasCon}

CategoriaResumen(c, total) == [categoria |-> c, total_mxn |-> total]

ArbolListasCat == {<<Cat1, Cat2>>}
ArbolListasCon == {<<Con1>>}

\* The combinations of tower, floor and unit the user applies
FiltrosOfrecidos ==
    {FiltrosVacios,
     [torre |-> <<"1">>, piso |-> << >>, depto |-> << >>],
     [torre |-> << >>, piso |-> <<"2">>, depto |-> <<"3">>]}

\* Category-level rollups whose totals play no part (all zero)
DatosArbol ==
    {[total_proyecto |-> Num(0),
      categorias |-> [n \in 1..Len(l) |-> CategoriaResumen(l[n], Num(0))]] :
        l \in ArbolListasCat}

----------------------------------------------------------------------------
(* Initial state: the page after DOMContentLoaded, projects listed *)

EstadoInicial ==
    [proyectoActual |-> Null, partidas |-> SinPartidas, categorias |-> SinDatos,
     conceptos |-> SinDatos, filtroCategoria |-> << >>, filtroConcepto |-> << >>]

DomInicial ==
    [proyectoSel |-> Null, tab |-> "partidas", btnNueva |-> FALSE,
     selCat |-> SelectVacio, selCon |-> SelectVacio,
     tbody |-> [modo |-> "placeholder", partidas |-> SinPartidas],
     resumen |-> Null, arbol |-> ArbolPlaceholder, filtrosOcultos |-> TRUE,
     glosarioView |-> "placeholder", modal |-> ModalInicial,
     proveedores |-> [modo |-> "inicial", items |-> << >>],
     modalProveedor |-> [activo |-> FALSE, titulo |-> << >>,
                         contenido |-> "inicial", de |-> << >>],
     cotizacionesLista |-> [modo |-> "inicial", ids |-> << >>],
     filtrosCot |-> [proyectos |-> << >>, proyecto |-> Null,
                     proveedores |-> << >>, proveedor |-> << >>],
     modalSubir |-> [activo |-> FALSE, proyectos |-> << >>, categorias |-> {},
                     btnDisabled |-> FALSE, btnLoading |-> FALSE],
     modalItems |-> [activo |-> FALSE, cotizacion |-> Null,
                     filas |-> {}, editando |-> {}]]

GlobalesInicial ==
    [proveedoresGlobal |-> << >>, cotizaciones |-> << >>,
     cotizacionActual |-> Null, proveedoresCotizaciones |-> << >>]

Init ==
    /\ estado = EstadoInicial
    /\ glosario = SinDatos
    /\ estadoExpansion = ExpansionVacia
    /\ filtrosResumen = FiltrosVacios
    /\ totalProyectoGlobal = 0
    /\ globales = GlobalesInicial
    /\ dom = DomInicial
    /\ tasks = << >>
    /\ acciones = 0

----------------------------------------------------------------------------
(* User actions.  Each takes the handler's inputs; the guard is what makes  *)
(* the control usable in the current document.                             *)

proyectoChange(s, p) ==
    LET s0 == [s EXCEPT !.dom.proyectoSel = p, !.estado.proyectoActual = p]
    IN  IF p # Null
        THEN cargarProyecto(s0, p, <<"change">>)
        ELSE [limpiarVista(s0) EXCEPT !.dom.btnNueva = FALSE]

\* proyecto-select change
CambiarProyecto(p) ==
    /\ p # dom.proyectoSel
    /\ Usuario(proyectoChange(Cur, p))

tabClick(s, t) ==
    LET s0 == [s EXCEPT !.dom.tab = t]
        s1 == IF t = "resumen" /\ s0.estado.proyectoActual # Null
              THEN cargarResumenJerarquico(s0, << >>) ELSE s0
        s2 == IF t = "glosario" /\ s1.estado.proyectoActual # Null
              THEN renderizarGlosario(s1) ELSE s1
    IN  CASE t = "proveedores" -> cargarProveedoresGlobal(s2)
          [] t = "cotizaciones" ->
               cargarFiltrosCotizaciones(cargarCotizaciones(s2, << >>), << >>)
          [] OTHER -> s2

\* .tab-btn click
ClickTab(t) == Usuario(tabClick(Cur, t))

filtroCategoriaChange(s, v) ==
    cargarConceptos([s EXCEPT !.dom.selCat.val = v, !.estado.filtroCategoria = v],
                    <<"filtroCategoria">>)

\* filtro-categoria change
CambiarFiltroCategoria(v) ==
    /\ v \in SeqToSet(dom.selCat.ops) \cup {<< >>}
    /\ v # dom.selCat.val
    /\ Usuario(filtroCategoriaChange(Cur, v))

filtroConceptoChange(s, v) ==
    LET s0 == [s EXCEPT !.dom.selCon.val = v]
    IN  cargarPartidas([s0 EXCEPT !.estado.filtroConcepto = s0.dom.selCon.val], << >>)

\* filtro-concepto change
CambiarFiltroConcepto(v) ==
    /\ v \in SeqToSet(dom.selCon.ops) \cup {<< >>}
    /\ v # dom.selCon.val
    /\ Usuario(filtroConceptoChange(Cur, v))

\* A clear that empties the two selects only
limpiarFiltrosSoloSelects(s) ==
    cargarPartidas([s EXCEPT !.dom.selCat.val = << >>,
                             !.dom.selCon.val = << >>], << >>)

limpiarFiltrosClick(s) ==
    cargarPartidas([s EXCEPT !.estado.filtroCategoria = << >>,
                             !.estado.filtroConcepto = << >>,
                             !.dom.selCat.val = << >>,
                             !.dom.selCon.val = << >>], << >>)

\* btn-limpiar-filtros click
LimpiarFiltros == Usuario(limpiarFiltrosClick(Cur))

\* eliminarPartida up to its await; confirma is the answer to confirm()
\* A delete that does not look at the confirmation
eliminarPartidaSinConfirmar(s, id, confirma) ==
    fetchAPI(s, Task("eliminar", Req("DELETE", "partida", Null, << >>, << >>, {}, id),
                     << >>, << >>, << >>))

eliminarPartida(s, id, confirma) ==
    IF ~confirma THEN s
    ELSE fetchAPI(s, Task("eliminar", Req("DELETE", "partida", Null, << >>, << >>, {}, id),
                          << >>, << >>, << >>))

FilaVisible(id) == dom.tbody.modo = "lista" /\ id \in dom.tbody.partidas.ids

\* the X button of a rendered row
EliminarPartida(id, confirma) ==
    /\ FilaVisible(id)
    /\ Usuario(eliminarPartida(Cur, id, confirma))

aplicarFiltrosResumen(s, torre, piso, depto) ==
    cargarResumenJerarquico(
      [s EXCEPT !.fr = [torre |-> torre, piso |-> piso, depto |-> depto],
                !.exp = ExpansionVacia],
      << >>)

FiltrosVisibles == dom.tab = "resumen" /\ ~dom.filtrosOcultos

\* btn-aplicar-filtros-resumen click, with the values selected in the three
\* filter selects
AplicarFiltrosResumen(torre, piso, depto) ==
    /\ FiltrosVisibles
    /\ Usuario(aplicarFiltrosResumen(Cur, torre, piso, depto))

\* The header of the i-th rendered category can be clicked
CategoriaVisible(i) ==
    /\ dom.tab = "resumen"
    /\ i \in 1..Len(dom.arbol.items)
    /\ dom.arbol.items[i].onclick.ok

ClickCategoria(i) ==
    /\ CategoriaVisible(i)
    /\ Usuario(toggleCategoria(Cur, dom.arbol.items[i].onclick.v))

\* The header of the j-th concept under the i-th category can be clicked:
\* its container is shown only while it has the class expanded
ConceptoVisible(i, j) ==
    /\ dom.tab = "resumen"
    /\ i \in 1..Len(dom.arbol.items)
    /\ dom.arbol.items[i].cls
    /\ j \in 1..Len(dom.arbol.items[i].hijos.items)
    /\ dom.arbol.items[i].hijos.items[j].onclickCat.ok
    /\ dom.arbol.items[i].hijos.items[j].onclickCon.ok

ClickConcepto(i, j) ==
    /\ ConceptoVisible(i, j)
    /\ Usuario(toggleConcepto(Cur, dom.arbol.items[i].hijos.items[j].onclickCat.v,
                             dom.arbol.items[i].hijos.items[j].onclickCon.v))

----------------------------------------------------------------------------
(* Responses: the request of the i-th suspended call settles *)

Pendiente(i, k) == i \in 1..Len(tasks) /\ tasks[i].k = k

Sin(i) == [Cur EXCEPT !.tasks = Quitar(@, i)]

RespBatch(i, ok, data) ==
    /\ Pendiente(i, "batch")
    /\ Respuesta(contBatch(Sin(i), tasks[i], ok, data))

RespPartidas(i, ok, data) ==
    /\ Pendiente(i, "partidas")
    /\ Respuesta(contPartidas(Sin(i), tasks[i], ok, data))

RespConceptos(i, ok, data) ==
    /\ Pendiente(i, "conceptos")
    /\ Respuesta(contConceptos(Sin(i), tasks[i], ok, data))

RespResumenJ(i, ok, data) ==
    /\ Pendiente(i, "resumenJ")
    /\ Respuesta(contResumenJ(Sin(i), tasks[i], ok, data))

RespFiltrosBF(i, ok, tiene) ==
    /\ Pendiente(i, "filtrosBF")
    /\ Respuesta(contFiltrosBF(Sin(i), tasks[i], ok, tiene))

RespConceptosCat(i, ok, conceptos) ==
    /\ Pendiente(i, "conceptosCat")
    /\ Respuesta(contConceptosCat(Sin(i), tasks[i], ok, conceptos))

RespDetalles(i, ok, detalles) ==
    /\ Pendiente(i, "detalles")
    /\ Respuesta(contDetalles(Sin(i), tasks[i], ok, detalles))

RespEliminar(i, ok) ==
    /\ Pendiente(i, "eliminar")
    /\ Respuesta(contEliminar(Sin(i), tasks[i], ok))

----------------------------------------------------------------------------
(* The line-item form: open, type, save, edit *)

MaxCantidad == 2
MaxUnitario == 100
MinPorcentaje == 6
MaxPorcentaje == 10
MaxTc == 2
IvaInicial == 16

cerrarModal(s) == [s EXCEPT !.dom.modal.activo = FALSE]

abrirModalNuevaPartida(s) ==
    [calcularTotales(
       [s EXCEPT !.dom.modal.id = Null,
                 !.dom.modal.cantidad = Texto(Doble(1)),
                 !.dom.modal.unitario = Texto(Doble(0)),
                 !.dom.modal.sobrecosto = Texto(Doble(0)),
                 !.dom.modal.iva = Texto(Doble(IvaInicial)),
                 !.dom.modal.tc = Texto(Doble(1))])
     EXCEPT !.dom.modal.activo = TRUE]

\* the input listener of the five number fields
inputCampo(s, campo, v) == calcularTotales([s EXCEPT !.dom.modal[campo] = v])

\* A save that always creates
guardarPartidaCrea(s) ==
    fetchAPI(s, Task("guardar",
                     [Req("POST", "partidas", s.estado.proyectoActual, << >>, << >>, {}, Null)
                        EXCEPT !.body = DatosFormulario(s.dom.modal)],
                     << >>, << >>, << >>))

\* guardarPartida up to its await
guardarPartida(s) ==
    LET m == s.dom.modal
        req == IF m.id # Null
               THEN Req("PUT", "partida", Null, << >>, << >>, {}, m.id)
               ELSE Req("POST", "partidas", s.estado.proyectoActual, << >>, << >>, {}, Null)
    IN  fetchAPI(s, Task("guardar", [req EXCEPT !.body = DatosFormulario(m)],
                         << >>, << >>, << >>))

contGuardar(s, task, ok) ==
    IF ok
    THEN cargarProyecto(cerrarModal(s), s.estado.proyectoActual, <<"guardarPartida">>)
    ELSE [s EXCEPT !.notice = @ + 1]

\* editarPartida up to its await
editarPartida(s, id) ==
    fetchAPI(s, Task("editar", Req("GET", "partida", Null, << >>, << >>, {}, id),
                     << >>, << >>, << >>))

contEditar(s, task, ok, partida) ==
    IF ok
    THEN [calcularTotales(
            [s EXCEPT !.dom.modal.id = partida.id,
                      !.dom.modal.cantidad = Texto(OrNum(partida.cantidad, Cero)),
                      !.dom.modal.unitario = Texto(OrNum(partida.unitario, Cero)),
                      !.dom.modal.sobrecosto =
                          Texto(Fmul(OrNum(partida.sobrecosto_pct, Cero), Doble(100))),
                      !.dom.modal.iva =
                          Texto(Fmul(OrNum(partida.iva_pct, Cero), Doble(100))),
                      !.dom.modal.tc = Texto(OrNum(partida.tipo_cambio, Doble(1)))])
          EXCEPT !.dom.modal.activo = TRUE]
    ELSE [s EXCEPT !.notice = @ + 1]

\* What the user may type in each number field
ValoresCampo(campo) ==
    {TextoVacio} \cup
    {Texto(Doble(n)) :
        n \in CASE campo = "cantidad" -> {MaxCantidad}
                [] campo = "unitario" -> {MaxUnitario}
                [] campo = "sobrecosto" -> {MaxPorcentaje}
                [] campo = "iva" -> {0}
                [] campo = "tc" -> {0, MaxTc}}

Campos == {"cantidad", "unitario", "sobrecosto", "iva", "tc"}

Porcentajes == MinPorcentaje..MaxPorcentaje

\* The line item the server holds once a form with overcost p and IVA q,
\* both whole numbers, was saved
PartidaGuardada(id, p, q) ==
    [id |-> id] @@
    DatosFormulario([ModalInicial EXCEPT !.cantidad = Texto(Doble(MaxCantidad)),
                                         !.unitario = Texto(Doble(MaxUnitario)),
                                         !.sobrecosto = Texto(Doble(p)),
                                         !.iva = Texto(Doble(q)),
                                         !.tc = Texto(Doble(1))])

PartidasServidor(id) == {PartidaGuardada(id, p, IvaInicial) : p \in Porcentajes}

ClickNueva ==
    /\ dom.btnNueva
    /\ Usuario(abrirModalNuevaPartida(Cur))

Input(campo, v) ==
    /\ dom.modal.activo
    /\ dom.modal[campo] # v
    /\ Usuario(inputCampo(Cur, campo, v))

Submit ==
    /\ dom.modal.activo
    /\ Usuario(guardarPartida(Cur))

Escape ==
    /\ dom.modal.activo
    /\ Usuario(cerrarModal(Cur))

\* the Editar button of a rendered row
ClickEditar(id) ==
    /\ FilaVisible(id)
    /\ Usuario(editarPartida(Cur, id))

RespGuardar(i, ok) ==
    /\ Pendiente(i, "guardar")
    /\ Respuesta(contGuardar(Sin(i), tasks[i], ok))

RespEditar(i, ok, partida) ==
    /\ Pendiente(i, "editar")
    /\ Respuesta(contEditar(Sin(i), tasks[i], ok, partida))

\* The totals a category-level response may carry
MaxTotal == 16

TotalesProyecto == {Undef} \cup {Num(n) : n \in {-MaxTotal, 0, 3, MaxTotal}}
TotalesCategoria == {Undef} \cup {Num(n) : n \in {-1, 0, 1, 3}}

DatosPct ==
    {[total_proyecto |-> t, categorias |-> <<CategoriaResumen(Cat1, c)>>] :
        t \in TotalesProyecto, c \in TotalesCategoria}

----------------------------------------------------------------------------
(* Suppliers and quotations: user actions, responses and server data *)

Prov1 == <<"P">>
Prov2 == <<"O", "'", "Q">>

\* What /proveedores-global may answer
ListasProveedoresGlobal ==
    {<<[categoria |-> Cat1, num_proveedores |-> 2, proveedores |-> <<Prov1, Prov2>>]>>}

\* What /proyectos, /cotizaciones and /cotizaciones/proveedores may answer
ListaProyectos == [n \in 1..MaxProyectoArbol |-> n]
ListasCotizaciones == {<<1>>}
ListaProveedoresCot == <<Prov1>>

\* What the upload form may lack when it is submitted
Faltas == {"archivo", "proyecto", "proveedor", "nada"}

\* a supplier card of the Proveedores tab
VerDetalleProveedor(j) ==
    /\ dom.tab = "proveedores"
    /\ j \in 1..Len(dom.proveedores.items)
    /\ dom.proveedores.items[j].onclick.ok
    /\ Usuario(verDetalleProveedor(Cur, dom.proveedores.items[j].onclick.v))

CerrarModalProveedor ==
    /\ dom.modalProveedor.activo
    /\ Usuario(cerrarModalProveedor(Cur))

\* the upload button of the Cotizaciones tab
MostrarModalSubirCotizacion ==
    /\ dom.tab = "cotizaciones"
    /\ ~dom.modalSubir.activo
    /\ Usuario(mostrarModalSubirCotizacion(Cur))

CerrarModalSubirCotizacion ==
    /\ dom.modalSubir.activo
    /\ Usuario(cerrarModalSubirCotizacion(Cur))

\* submit of the upload form: its button must be enabled
ProcesarCotizacion(falta) ==
    /\ dom.modalSubir.activo
    /\ ~dom.modalSubir.btnDisabled
    /\ Usuario(procesarCotizacion(Cur, falta))

\* a quotation card of the Cotizaciones tab
VerItemsCotizacion(id) ==
    /\ dom.tab = "cotizaciones"
    /\ dom.cotizacionesLista.modo = "lista"
    /\ id \in SeqToSet(dom.cotizacionesLista.ids)
    /\ Usuario(verItemsCotizacion(Cur, id, << >>))

RespProveedoresGlobal(i, ok, data) ==
    /\ Pendiente(i, "proveedoresGlobal")
    /\ Respuesta(contProveedoresGlobal(Sin(i), tasks[i], ok, data))

RespEstadisticas(i, r) ==
    /\ Pendiente(i, "estadisticas")
    /\ Respuesta(contEstadisticas(Sin(i), tasks[i], r))

RespUpload(i, r) ==
    /\ Pendiente(i, "upload")
    /\ Respuesta(contUpload(Sin(i), tasks[i], r, 1))

RespItems(i, ok) ==
    /\ Pendiente(i, "items")
    /\ Respuesta(contItems(Sin(i), tasks[i], ok))

\* the close button of the items modal
CerrarModalItems ==
    /\ dom.modalItems.activo
    /\ Usuario(cerrarModalItemsCotizacion(Cur))

\* the edit button of a row that is not being edited
EditarItem(itemId) ==
    /\ dom.modalItems.activo
    /\ itemId \in dom.modalItems.filas \ dom.modalItems.editando
    /\ Usuario(editarItemCotizacion(Cur, itemId))

\* the save button of a row that is being edited
GuardarItem(itemId) ==
    /\ dom.modalItems.activo
    /\ itemId \in dom.modalItems.editando
    /\ Usuario(guardarItemCotizacion(Cur, itemId))

\* the delete button of a row that is not being edited
EliminarItem(itemId, confirma) ==
    /\ dom.modalItems.activo
    /\ itemId \in dom.modalItems.filas \ dom.modalItems.editando
    /\ Usuario(eliminarItemCotizacion(Cur, itemId, confirma))

RespEditarItem(i, r) ==
    /\ Pendiente(i, "editarItem")
    /\ Respuesta(contEditarItem(Sin(i), tasks[i], r))

RespGuardarItem(i, ok) ==
    /\ Pendiente(i, "guardarItem")
    /\ Respuesta(contGuardarItem(Sin(i), tasks[i], ok))

RespEliminarItem(i, ok) ==
    /\ Pendiente(i, "eliminarItem")
    /\ Respuesta(contGuardarItem(Sin(i), tasks[i], ok))

RespCotizaciones(i, ok, data) ==
    /\ Pendiente(i, "cotizaciones")
    /\ Respuesta(contCotizaciones(Sin(i), tasks[i], ok, data))

RespFiltrosProyectos(i, ok) ==
    /\ Pendiente(i, "filtrosProyectos")
    /\ Respuesta(contFiltrosProyectos(Sin(i), tasks[i], ok, ListaProyectos))

RespFiltrosProveedores(i, ok) ==
    /\ Pendiente(i, "filtrosProveedores")
    /\ Respuesta(contFiltrosProveedores(Sin(i), tasks[i], ok, ListaProveedoresCot))

RespSubirProyectos(i, ok) ==
    /\ Pendiente(i, "subirProyectos")
    /\ Respuesta(contSubirProyectos(Sin(i), tasks[i], ok, ListaProyectos))

RespCategoriasProyectos(i, ok) ==
    /\ Pendiente(i, "categoriasProyectos")
    /\ Respuesta(contCategoriasProyectos(Sin(i), tasks[i], ok, ListaProyectos))

RespCategoriasProyecto(i, ok) ==
    /\ Pendiente(i, "categoriasProyecto")
    /\ Respuesta(contCategoriasProyecto(Sin(i), tasks[i], ok, <<Cat1>>))

----------------------------------------------------------------------------
(* Names the server may hold for categories and concepts *)

\* <b>"X"</b>
NombreMarcado == <<"<", "b", ">", "\"", "X", "\"", "<", "/", "b", ">">>
\* O'Q, a\b, R&D, a-b, a, b-c, c, "a b" and a_b
NombreComilla == <<"O", "'", "Q">>
NombreBarra == <<"a", "\\", "b">>
NombreAmp == <<"R", "&", "D">>
NombreGuion == <<"a", "-", "b">>
NombreA == <<"a">>
NombreGuionC == <<"b", "-", "c">>
NombreC == <<"c">>
NombreEspacio == <<"a", " ", "b">>
NombreBajo == <<"a", "_", "b">>

\* The category lists of a category-level answer
NombresListasCat ==
    {<<NombreMarcado>>, <<NombreComilla, NombreBarra>>, <<NombreAmp>>,
     <<NombreGuion, NombreA>>, <<NombreEspacio, NombreBajo>>}

\* The concept lists of a concept-level answer
NombresListasCon == {<<NombreC>>, <<NombreGuionC>>, <<NombreComilla>>}

DatosNombres ==
    {[total_proyecto |-> Num(0),
      categorias |-> [n \in 1..Len(l) |-> CategoriaResumen(l[n], Num(0))]] :
        l \in NombresListasCat}

----------------------------------------------------------------------------
(* Specifications *)

Un(S) == CHOOSE x \in S : TRUE

\* The project, its line items, the two line-item filters and delete, with
\* the answers the server may give to each pending request
Next ==
    \/ \E p \in Proyectos \cup {Null} : CambiarProyecto(p)
    \/ \E v \in {<< >>, Cat1} : CambiarFiltroCategoria(v)
    \/ \E v \in {<< >>, Con1} : CambiarFiltroConcepto(v)
    \/ LimpiarFiltros
    \/ \E id \in PartidaIds, c \in BOOLEAN : EliminarPartida(id, c)
    \/ \E i \in 1..Len(tasks) : \E data \in DatosBatch(tasks[i].req) : RespBatch(i, TRUE, data)
    \/ \E i \in 1..Len(tasks) : RespBatch(i, FALSE, Un(DatosBatch(tasks[i].req)))
    \/ \E i \in 1..Len(tasks) : \E data \in DatosPartidas(tasks[i].req) : RespPartidas(i, TRUE, data)
    \/ \E i \in 1..Len(tasks) : RespPartidas(i, FALSE, Un(DatosPartidas(tasks[i].req)))
    \/ \E i \in 1..Len(tasks) : \E data \in DatosConceptos(tasks[i].req) : RespConceptos(i, TRUE, data)
    \/ \E i \in 1..Len(tasks) : RespConceptos(i, FALSE, Un(DatosConceptos(tasks[i].req)))
    \/ \E i \in 1..Len(tasks) : RespEliminar(i, TRUE)
    \/ \E i \in 1..Len(tasks) : RespEliminar(i, FALSE)

Spec == Init /\ [][Next]_vars

\* The hierarchical summary: project selection, the tabs, the tower/floor/
\* unit filters and the expand/collapse clicks, with the answers to each
\* pending request
NextArbol ==
    \/ \E p \in (1..MaxProyectoArbol) \cup {Null} : CambiarProyecto(p)
    \/ \E t \in {"partidas", "resumen"} : ClickTab(t)
    \/ \E f \in FiltrosOfrecidos : AplicarFiltrosResumen(f.torre, f.piso, f.depto)
    \/ \E i \in 1..2 : ClickCategoria(i)
    \/ \E i \in 1..2, j \in 1..2 : ClickConcepto(i, j)
    \/ \E i \in 1..Len(tasks) : RespBatch(i, TRUE, Un(DatosBatch(tasks[i].req)))
    \/ \E i \in 1..Len(tasks) : RespBatch(i, FALSE, Un(DatosBatch(tasks[i].req)))
    \/ \E i \in 1..Len(tasks) : RespPartidas(i, TRUE, Un(DatosPartidas(tasks[i].req)))
    \/ \E i \in 1..Len(tasks) : RespPartidas(i, FALSE, Un(DatosPartidas(tasks[i].req)))
    \/ \E i \in 1..Len(tasks) : \E data \in DatosArbol : RespResumenJ(i, TRUE, data)
    \/ \E i \in 1..Len(tasks) : RespResumenJ(i, FALSE, Un(DatosArbol))
    \/ \E i \in 1..Len(tasks) : \E tiene \in BOOLEAN : RespFiltrosBF(i, TRUE, tiene)
    \/ \E i \in 1..Len(tasks) : RespFiltrosBF(i, FALSE, FALSE)
    \/ \E i \in 1..Len(tasks) : \E l \in ArbolListasCon : RespConceptosCat(i, TRUE, l)
    \/ \E i \in 1..Len(tasks) : RespConceptosCat(i, FALSE, << >>)
    \/ \E i \in 1..Len(tasks) : \E l \in {<<"d">>} : RespDetalles(i, TRUE, l)
    \/ \E i \in 1..Len(tasks) : RespDetalles(i, FALSE, << >>)

SpecArbol == Init /\ [][NextArbol]_vars

\* The line-item form: one project, the form's fields, save and edit, with
\* the answers to each pending request
NextForm ==
    \/ \E p \in (1..MaxProyectoArbol) \cup {Null} : CambiarProyecto(p)
    \/ ClickNueva
    \/ \E campo \in Campos : \E v \in ValoresCampo(campo) : Input(campo, v)
    \/ Submit
    \/ Escape
    \/ \E id \in PartidaIds : ClickEditar(id)
    \/ \E i \in 1..Len(tasks) : RespBatch(i, TRUE, Un(DatosBatch(tasks[i].req)))
    \/ \E i \in 1..Len(tasks) : RespBatch(i, FALSE, Un(DatosBatch(tasks[i].req)))
    \/ \E i \in 1..Len(tasks) : RespPartidas(i, TRUE, Un(DatosPartidas(tasks[i].req)))
    \/ \E i \in 1..Len(tasks) : RespPartidas(i, FALSE, Un(DatosPartidas(tasks[i].req)))
    \/ \E i \in 1..Len(tasks) : RespGuardar(i, TRUE)
    \/ \E i \in 1..Len(tasks) : RespGuardar(i, FALSE)
    \/ \E i \in 1..Len(tasks) : \E partida \in PartidasServidor(tasks[i].req.id) :
          RespEditar(i, TRUE, partida)
    \/ \E i \in 1..Len(tasks) : RespEditar(i, FALSE, Un(PartidasServidor(tasks[i].req.id)))

SpecForm == Init /\ [][NextForm]_vars

\* The category level of the summary with its totals and percentages
NextPct ==
    \/ \E p \in (1..MaxProyectoArbol) \cup {Null} : CambiarProyecto(p)
    \/ \E t \in {"partidas", "resumen"} : ClickTab(t)
    \/ \E i \in 1..Len(tasks) : RespBatch(i, TRUE, Un(DatosBatch(tasks[i].req)))
    \/ \E i \in 1..Len(tasks) : RespBatch(i, FALSE, Un(DatosBatch(tasks[i].req)))
    \/ \E i \in 1..Len(tasks) : RespPartidas(i, TRUE, Un(DatosPartidas(tasks[i].req)))
    \/ \E i \in 1..Len(tasks) : RespPartidas(i, FALSE, Un(DatosPartidas(tasks[i].req)))
    \/ \E i \in 1..Len(tasks) : \E data \in DatosPct : RespResumenJ(i, TRUE, data)
    \/ \E i \in 1..Len(tasks) : RespResumenJ(i, FALSE, Un(DatosPct))
    \/ \E i \in 1..Len(tasks) : \E tiene \in BOOLEAN : RespFiltrosBF(i, TRUE, tiene)
    \/ \E i \in 1..Len(tasks) : RespFiltrosBF(i, FALSE, FALSE)

SpecPct == Init /\ [][NextPct]_vars

\* Some pending request of the suppliers and quotations tabs settles, the
\* failures listed first
ResponderCot ==
    \/ \E i \in 1..Len(tasks) : RespProveedoresGlobal(i, FALSE, << >>)
    \/ \E i \in 1..Len(tasks) : \E r \in {"malformado", "fallo"} : RespEstadisticas(i, r)
    \/ \E i \in 1..Len(tasks) : \E r \in {"red", "json", "http", "sinCotizacion"} :
          RespUpload(i, r)
    \/ \E i \in 1..Len(tasks) : RespItems(i, FALSE)
    \/ \E i \in 1..Len(tasks) : RespCotizaciones(i, FALSE, << >>)
    \/ \E i \in 1..Len(tasks) : RespFiltrosProyectos(i, FALSE)
    \/ \E i \in 1..Len(tasks) : RespFiltrosProveedores(i, FALSE)
    \/ \E i \in 1..Len(tasks) : RespSubirProyectos(i, FALSE)
    \/ \E i \in 1..Len(tasks) : RespCategoriasProyectos(i, FALSE)
    \/ \E i \in 1..Len(tasks) : RespCategoriasProyecto(i, FALSE)
    \/ \E i \in 1..Len(tasks) : \E data \in ListasProveedoresGlobal :
          RespProveedoresGlobal(i, TRUE, data)
    \/ \E i \in 1..Len(tasks) : RespEstadisticas(i, "ok")
    \/ \E i \in 1..Len(tasks) : \E r \in {"items", "sinItems"} : RespUpload(i, r)
    \/ \E i \in 1..Len(tasks) : RespItems(i, TRUE)
    \/ \E i \in 1..Len(tasks) : \E data \in ListasCotizaciones : RespCotizaciones(i, TRUE, data)
    \/ \E i \in 1..Len(tasks) : RespFiltrosProyectos(i, TRUE)
    \/ \E i \in 1..Len(tasks) : RespFiltrosProveedores(i, TRUE)
    \/ \E i \in 1..Len(tasks) : RespSubirProyectos(i, TRUE)
    \/ \E i \in 1..Len(tasks) : RespCategoriasProyectos(i, TRUE)
    \/ \E i \in 1..Len(tasks) : RespCategoriasProyecto(i, TRUE)

\* The Proveedores and Cotizaciones tabs: the supplier cards and their
\* statistics modal, the quotation list and the upload form
NextCot ==
    \/ \E t \in {"proveedores", "cotizaciones"} : ClickTab(t)
    \/ \E j \in 1..2 : VerDetalleProveedor(j)
    \/ CerrarModalProveedor
    \/ MostrarModalSubirCotizacion
    \/ CerrarModalSubirCotizacion
    \/ \E falta \in Faltas : ProcesarCotizacion(falta)
    \/ \E id \in {1} : VerItemsCotizacion(id)
    \/ ResponderCot

\* Every request settles: a pending request is answered, with success or
\* failure, after finitely many steps
SpecCot == Init /\ [][NextCot]_vars /\ WF_vars(ResponderCot)


\* The summary tree over names with quotes, markup characters, hyphens,
\* spaces and underscores
NextNombres ==
    \/ \E p \in 1..MaxProyectoArbol : CambiarProyecto(p)
    \/ ClickTab("resumen")
    \/ \E i \in 1..2 : ClickCategoria(i)
    \/ \E i \in 1..2, j \in 1..2 : ClickConcepto(i, j)
    \/ \E i \in 1..Len(tasks) : RespBatch(i, TRUE, Un(DatosBatch(tasks[i].req)))
    \/ \E i \in 1..Len(tasks) : RespBatch(i, FALSE, Un(DatosBatch(tasks[i].req)))
    \/ \E i \in 1..Len(tasks) : RespPartidas(i, TRUE, Un(DatosPartidas(tasks[i].req)))
    \/ \E i \in 1..Len(tasks) : RespPartidas(i, FALSE, Un(DatosPartidas(tasks[i].req)))
    \/ \E i \in 1..Len(tasks) : \E data \in DatosNombres : RespResumenJ(i, TRUE, data)
    \/ \E i \in 1..Len(tasks) : RespResumenJ(i, FALSE, Un(DatosNombres))
    \/ \E i \in 1..Len(tasks) : \E tiene \in BOOLEAN : RespFiltrosBF(i, TRUE, tiene)
    \/ \E i \in 1..Len(tasks) : RespFiltrosBF(i, FALSE, FALSE)
    \/ \E i \in 1..Len(tasks) : \E l \in NombresListasCon : RespConceptosCat(i, TRUE, l)
    \/ \E i \in 1..Len(tasks) : RespConceptosCat(i, FALSE, << >>)
    \/ \E i \in 1..Len(tasks) : \E l \in {<<"d">>} : RespDetalles(i, TRUE, l)
    \/ \E i \in 1..Len(tasks) : RespDetalles(i, FALSE, << >>)

SpecNombres == Init /\ [][NextNombres]_vars

\* Saving and deleting line items while the summary tree has expanded
\* categories and filters
NextRecarga ==
    \/ \E p \in 1..MaxProyectoArbol : CambiarProyecto(p)
    \/ ClickTab("resumen")
    \/ AplicarFiltrosResumen(<<"1">>, << >>, << >>)
    \/ \E i \in 1..2 : ClickCategoria(i)
    \/ \E id \in PartidaIds : EliminarPartida(id, TRUE)
    \/ ClickNueva
    \/ Submit
    \/ \E i \in 1..Len(tasks) : RespBatch(i, TRUE, Un(DatosBatch(tasks[i].req)))
    \/ \E i \in 1..Len(tasks) : RespBatch(i, FALSE, Un(DatosBatch(tasks[i].req)))
    \/ \E i \in 1..Len(tasks) : RespPartidas(i, TRUE, Un(DatosPartidas(tasks[i].req)))
    \/ \E i \in 1..Len(tasks) : RespPartidas(i, FALSE, Un(DatosPartidas(tasks[i].req)))
    \/ \E i \in 1..Len(tasks) : \E data \in DatosArbol : RespResumenJ(i, TRUE, data)
    \/ \E i \in 1..Len(tasks) : RespResumenJ(i, FALSE, Un(DatosArbol))
    \/ \E i \in 1..Len(tasks) : RespFiltrosBF(i, TRUE, TRUE)
    \/ \E i \in 1..Len(tasks) : RespFiltrosBF(i, FALSE, FALSE)
    \/ \E i \in 1..Len(tasks) : \E l \in ArbolListasCon : RespConceptosCat(i, TRUE, l)
    \/ \E i \in 1..Len(tasks) : RespConceptosCat(i, FALSE, << >>)
    \/ \E i \in 1..Len(tasks) : RespGuardar(i, TRUE)
    \/ \E i \in 1..Len(tasks) : RespGuardar(i, FALSE)
    \/ \E i \in 1..Len(tasks) : RespEliminar(i, TRUE)
    \/ \E i \in 1..Len(tasks) : RespEliminar(i, FALSE)

SpecRecarga == Init /\ [][NextRecarga]_vars

\* Project selections whose loads overlap; every request succeeds
NextProyectos ==
    \/ \E p \in Proyectos \cup {Null} : CambiarProyecto(p)
    \/ \E t \in {"partidas", "glosario"} : ClickTab(t)
    \/ \E i \in 1..Len(tasks) : \E data \in DatosBatch(tasks[i].req) : RespBatch(i, TRUE, data)
    \/ \E i \in 1..Len(tasks) : \E data \in DatosPartidas(tasks[i].req) : RespPartidas(i, TRUE, data)

SpecProyectos == Init /\ [][NextProyectos]_vars

\* The items of a quotation: open the modal, edit, save and delete rows, and
\* close the modal, with requests in flight
NextItems ==
    \/ ClickTab("cotizaciones")
    \/ \E id \in {1} : VerItemsCotizacion(id)
    \/ CerrarModalItems
    \/ \E itemId \in ItemIds : EditarItem(itemId)
    \/ \E itemId \in ItemIds : GuardarItem(itemId)
    \/ \E itemId \in ItemIds, c \in BOOLEAN : EliminarItem(itemId, c)
    \/ \E i \in 1..Len(tasks) : \E data \in ListasCotizaciones : RespCotizaciones(i, TRUE, data)
    \/ \E i \in 1..Len(tasks) : RespCotizaciones(i, FALSE, << >>)
    \/ \E i \in 1..Len(tasks) : \E ok \in BOOLEAN : RespFiltrosProyectos(i, ok)
    \/ \E i \in 1..Len(tasks) : \E ok \in BOOLEAN : RespFiltrosProveedores(i, ok)
    \/ \E i \in 1..Len(tasks) : RespItems(i, TRUE)
    \/ \E i \in 1..Len(tasks) : RespItems(i, FALSE)
    \/ \E i \in 1..Len(tasks) : \E r \in {"ok", "sinItem", "fallo"} : RespEditarItem(i, r)
    \/ \E i \in 1..Len(tasks) : RespGuardarItem(i, TRUE)
    \/ \E i \in 1..Len(tasks) : RespGuardarItem(i, FALSE)
    \/ \E i \in 1..Len(tasks) : RespEliminarItem(i, TRUE)
    \/ \E i \in 1..Len(tasks) : RespEliminarItem(i, FALSE)

SpecItems == Init /\ [][NextItems]_vars

----------------------------------------------------------------------------
(* Steps, as seen from a pair of states *)

VistaEstado == <<estado, glosario, estadoExpansion, filtrosResumen>>

EsPasoUsuario == acciones' # acciones

\* The calls a step suspended: what it appended to tasks
Nuevas ==
    IF EsPasoUsuario
    THEN SubSeq(tasks', Len(tasks) + 1, Len(tasks'))
    ELSE SubSeq(tasks', Len(tasks), Len(tasks'))

NuevasDe(k) == {n \in 1..Len(Nuevas) : Nuevas[n].k = k}

NombresCategoria == {Cat1, Cat2}
NombresConcepto == {Con1, Con2}

Expandida(c) == Get(estadoExpansion.categorias, c)
ExpandidoC(c, k) == Get(estadoExpansion.conceptos, ClaveConcepto(c, k))

CatDe(i) == dom.arbol.items[i].onclick.v
ConDe(i, j) == <<dom.arbol.items[i].hijos.items[j].onclickCat.v,
                 dom.arbol.items[i].hijos.items[j].onclickCon.v>>

----------------------------------------------------------------------------
(* Claims *)

\* C1: one toggleCategoria(c) on an expanded category c leaves c collapsed
\* and every concept key c:<concept> collapsed, in that same call.
C1_ColapsoEnCascada ==
    [][\A i \in 1..2 :
         (CategoriaVisible(i) /\ Expandida(CatDe(i)) /\ ClickCategoria(i))
         => LET c == CatDe(i)
            IN  /\ c \in DOMAIN estadoExpansion'.categorias
                /\ ~estadoExpansion'.categorias[c]
                /\ \A k \in NombresConcepto :
                      ~Get(estadoExpansion'.conceptos, ClaveConcepto(c, k))]_vars

\* C1 witness: Cat1 was collapsed while its concept Con1 was expanded: the
\* key is false although the concept's element still carries the class.
C1_Witness ==
    /\ Cat1 \in DOMAIN estadoExpansion.categorias
    /\ ~estadoExpansion.categorias[Cat1]
    /\ ClaveConcepto(Cat1, Con1) \in DOMAIN estadoExpansion.conceptos
    /\ ~estadoExpansion.conceptos[ClaveConcepto(Cat1, Con1)]
    /\ \E i \in 1..Len(dom.arbol.items) :
          /\ dom.arbol.items[i].dataCat = Cat1
          /\ ~dom.arbol.items[i].cls
          /\ \E j \in 1..Len(dom.arbol.items[i].hijos.items) :
                /\ dom.arbol.items[i].hijos.items[j].dataCon = Con1
                /\ dom.arbol.items[i].hijos.items[j].cls

\* C2: right after the change handler for a newly selected
\* project has run, before any of its requests settles, the two line-item
\* filters, the summary filters, the expansion state and the project-scoped
\* caches are at their initial empty values.
C2_CambioReiniciaTodo ==
    [][\A p \in Proyectos :
         CambiarProyecto(p)
         => /\ estado'.filtroCategoria = << >>
            /\ estado'.filtroConcepto = << >>
            /\ filtrosResumen' = FiltrosVacios
            /\ estadoExpansion' = ExpansionVacia
            /\ estado'.partidas = SinPartidas
            /\ estado'.categorias = SinDatos
            /\ estado'.conceptos = SinDatos
            /\ glosario' = SinDatos]_vars

\* C3: a declined confirmation in eliminarPartida issues no request, starts
\* no reload and leaves estado.partidas and the rendered table as they were.
C3_DeclinarNoCambia ==
    [][\A id \in PartidaIds :
         EliminarPartida(id, FALSE)
         => /\ tasks' = tasks
            /\ UNCHANGED <<estado, glosario, estadoExpansion, filtrosResumen,
                           totalProyectoGlobal, globales, dom>>]_vars

\* C3 witness: a row is rendered and its delete button can be clicked, after
\* an earlier click on it (declined, since nothing is pending and the row is
\* still the one loaded).
C3_Witness ==
    /\ FilaVisible(1)
    /\ tasks = << >>
    /\ acciones >= 2
    /\ acciones < MaxAcciones
    /\ estado.partidas.pid = estado.proyectoActual
    /\ estado.filtroCategoria = << >> /\ estado.filtroConcepto = << >>
    /\ dom.proyectoSel = 1

\* C4 (for the category filter handler): when the request the handler
\* issues fails, estado, glosario, estadoExpansion and filtrosResumen
\* are what they were before the handler began.
C4_FalloRestauraEstado ==
    \A v \in SeqToSet(dom.selCat.ops) \cup {<< >>} :
        (v # dom.selCat.val /\ estado.proyectoActual # Null)
        => LET s1 == filtroCategoriaChange(Cur, v)
               s2 == contConceptos([s1 EXCEPT !.tasks = tasks],
                                   s1.tasks[Len(s1.tasks)], FALSE,
                                   Un(DatosConceptos(s1.tasks[Len(s1.tasks)].req)))
           IN  <<s2.estado, s2.glosario, s2.exp, s2.fr>> = VistaEstado

\* The query of a summary request: the non-empty ones among the three
FiltrosNoVacios(torre, piso, depto) ==
    (IF torre # << >> THEN {<<"torre", torre>>} ELSE {})
    \cup (IF piso # << >> THEN {<<"piso", piso>>} ELSE {})
    \cup (IF depto # << >> THEN {<<"depto", depto>>} ELSE {})

PideCategorias(f) ==
    /\ Len(Nuevas) = 1
    /\ Nuevas[1].k = "resumenJ"
    /\ Nuevas[1].req = Req("GET", "resumen-jerarquico", estado.proyectoActual,
                           << >>, << >>, FiltrosNoVacios(f.torre, f.piso, f.depto), Null)

PideHijos(k, c, con) ==
    /\ Len(Nuevas) = 1
    /\ Nuevas[1].k = k
    /\ Nuevas[1].req.cat = c
    /\ Nuevas[1].req.con = con
    /\ Nuevas[1].req.pid = estado.proyectoActual
    /\ Nuevas[1].req.params =
          FiltrosNoVacios(filtrosResumen.torre, filtrosResumen.piso, filtrosResumen.depto)

\* C6: a toggle issues a child-level request exactly when it expands: an
\* expand marks the node and fetches its children, whether or not they were
\* fetched before; a collapse issues nothing.
C6_PideSoloAlExpandir ==
    [][/\ \A i \in 1..2 :
            (CategoriaVisible(i) /\ ClickCategoria(i))
            => IF Expandida(CatDe(i))
               THEN Nuevas = << >>
               ELSE /\ Get(estadoExpansion'.categorias, CatDe(i))
                    /\ PideHijos("conceptosCat", CatDe(i), << >>)
       /\ \A i \in 1..2, j \in 1..2 :
            (ConceptoVisible(i, j) /\ ClickConcepto(i, j))
            => IF ExpandidoC(ConDe(i, j)[1], ConDe(i, j)[2])
               THEN Nuevas = << >>
               ELSE /\ Get(estadoExpansion'.conceptos,
                           ClaveConcepto(ConDe(i, j)[1], ConDe(i, j)[2]))
                    /\ PideHijos("detalles", ConDe(i, j)[1], ConDe(i, j)[2])]_vars

\* C6 witness: Cat1 is expanded again while the concepts of its earlier
\* expand are still rendered, and its concepts are being fetched anew.
C6_Witness ==
    /\ Expandida(Cat1)
    /\ \E i \in 1..Len(dom.arbol.items) :
          /\ dom.arbol.items[i].dataCat = Cat1
          /\ dom.arbol.items[i].hijos.modo = "lista"
    /\ \E n \in 1..Len(tasks) : tasks[n].k = "conceptosCat" /\ tasks[n].cat = Cat1

\* C7: a concept-level request for c goes out only while c is
\* expanded, a detail-level request for (c, k) only while c:k and c are both
\* expanded, and a project switch or a filter apply issues neither.
C7_CargaPerezosa ==
    [][/\ \A n \in NuevasDe("conceptosCat") :
            Get(estadoExpansion'.categorias, Nuevas[n].cat)
       /\ \A n \in NuevasDe("detalles") :
            /\ Get(estadoExpansion'.conceptos, ClaveConcepto(Nuevas[n].cat, Nuevas[n].con))
            /\ Get(estadoExpansion'.categorias, Nuevas[n].cat)
       /\ ((\E p \in Proyectos \cup {Null} : CambiarProyecto(p))
           \/ (\E f \in FiltrosOfrecidos : AplicarFiltrosResumen(f.torre, f.piso, f.depto)))
          => NuevasDe("conceptosCat") \cup NuevasDe("detalles") = {}]_vars

\* The tenths printed in pct are the nearest to c / t * 100, for the
\* category total c printed in total with its cents: |1000 * c / t - d| <= 1/2
EsCociente(pct, total, t) ==
    LET d == IF pct.neg THEN -pct.n ELSE pct.n
        c == IF total.neg THEN -total.n ELSE total.n
        x == 10 * c - d * t
    IN  /\ pct.t = "num"
        /\ 2 * (IF x < 0 THEN -x ELSE x) <= (IF t < 0 THEN -t ELSE t)

EsCeroPct(pct) == pct = [t |-> "num", neg |-> FALSE, n |-> 0]

\* A category without a total: NaN% next to $0.00
SinTotal(item) == item.pct.t = "nan" /\ item.total = formatearMoneda(NaN)

\* C8 (as stated): with a project total of 0 or none, every rendered
\* category shows 0.0%; with any other project total it shows categoryTotal
\* / projectTotal * 100.
C8_PorcentajeGuardado ==
    \A n \in 1..Len(dom.arbol.items) :
        LET item == dom.arbol.items[n]
        IN  IF totalProyectoGlobal = 0 THEN EsCeroPct(item.pct)
            ELSE SinTotal(item) \/ EsCociente(item.pct, item.total, totalProyectoGlobal)

\* C8 (amended): with a project total of 0 or below, or none, every rendered
\* category shows 0.0%; with a project total above 0 it shows categoryTotal
\* / projectTotal * 100 to one decimal, NaN when the category has no total.
C8_PorcentajePositivo ==
    \A n \in 1..Len(dom.arbol.items) :
        LET item == dom.arbol.items[n]
        IN  IF totalProyectoGlobal <= 0 THEN EsCeroPct(item.pct)
            ELSE SinTotal(item) \/ EsCociente(item.pct, item.total, totalProyectoGlobal)

\* C8 witness: a category of -1.00 in a project total of -16 is rendered
\* with 0.0%.
C8_Witness ==
    /\ dom.arbol.modo = "lista"
    /\ totalProyectoGlobal = -MaxTotal
    /\ dom.arbol.items[1].total = [t |-> "num", neg |-> TRUE, n |-> 100]
    /\ EsCeroPct(dom.arbol.items[1].pct)

\* a field as entered, an empty one as zero
Entrado(v) == IF v.t = "vacio" THEN Cero ELSE v.x

FormulaTotal(sp, ip, tc, subtotal, overcost, base, tax, total) ==
    [sobrecostoPct |-> sp, ivaPct |-> ip,
     importeSinIva |-> subtotal, sobrecosto |-> overcost,
     baseConSobrecosto |-> base, iva |-> tax, total |-> total,
     totalMxn |-> Fmul(total, tc)]

FormulaTax(sp, ip, tc, subtotal, overcost, base, tax) ==
    FormulaTotal(sp, ip, tc, subtotal, overcost, base, tax, Fadd(base, tax))

FormulaBase(sp, ip, tc, subtotal, overcost, base) ==
    FormulaTax(sp, ip, tc, subtotal, overcost, base, Fmul(base, ip))

FormulaOvercost(sp, ip, tc, subtotal, overcost) ==
    FormulaBase(sp, ip, tc, subtotal, overcost, Fadd(subtotal, overcost))

\* The documented formula on q, u, the two fractions and the exchange rate:
\* subtotal, overcost, base, tax, total and the total in base currency
Formula(q, u, sp, ip, tc) ==
    FormulaOvercost(sp, ip, tc, Fmul(q, u), Fmul(Fmul(q, u), sp))

\* a decimal with one digit after the point, as a double
Decimal1(n) == Fdiv(Doble(n), Doble(10))

\* The worked example of the formula
Ejemplo ==
    LET m == [ModalInicial EXCEPT !.cantidad = Texto(Doble(2)),
                                  !.unitario = Texto(Doble(100)),
                                  !.sobrecosto = Texto(Doble(10)),
                                  !.iva = Texto(Doble(16)),
                                  !.tc = Texto(Doble(1))]
        r == Totales(m)
    IN  /\ r.importeSinIva = Doble(200)
        /\ r.sobrecosto = Doble(20)
        /\ r.baseConSobrecosto = Doble(220)
        /\ r.iva = Decimal1(352)
        /\ r.total = Decimal1(2552)
        /\ r.totalMxn = Decimal1(2552)

\* C9 (as stated, with an exchange rate entered): the totals of the open
\* form are the formula on the entered values, empty ones as zero, percents
\* divided by 100, and the exchange rate as entered.
C9_FormulaTotales ==
    (dom.modal.activo /\ dom.modal.tc.t = "num")
    => LET m == dom.modal
           f == Formula(Entrado(m.cantidad), Entrado(m.unitario),
                        Fdiv(Entrado(m.sobrecosto), Doble(100)),
                        Fdiv(Entrado(m.iva), Doble(100)), Entrado(m.tc))
       IN  /\ Totales(m) = f
           /\ m.importe = formatearMoneda(f.importeSinIva)
           /\ m.totalMxn = formatearMoneda(f.totalMxn)
           /\ Ejemplo

\* C9 (amended): the same, with an exchange rate that is empty or zero
\* taken as 1.
C9_FormulaTotalesTc ==
    dom.modal.activo
    => LET m == dom.modal
           f == Formula(Entrado(m.cantidad), Entrado(m.unitario),
                        Fdiv(Entrado(m.sobrecosto), Doble(100)),
                        Fdiv(Entrado(m.iva), Doble(100)),
                        IF EsCero(Entrado(m.tc)) THEN Doble(1) ELSE Entrado(m.tc))
       IN  /\ Totales(m) = f
           /\ m.importe = formatearMoneda(f.importeSinIva)
           /\ m.totalMxn = formatearMoneda(f.totalMxn)
           /\ Ejemplo

\* C9 witness: 2 units at 100 with the initial 16 percent IVA and an
\* exchange rate of 0 show 200.00 and 232.00.
C9_Witness ==
    /\ dom.modal.activo
    /\ dom.modal.cantidad = Texto(Doble(MaxCantidad))
    /\ dom.modal.unitario = Texto(Doble(MaxUnitario))
    /\ dom.modal.tc = Texto(Cero)
    /\ dom.modal.importe = [t |-> "num", neg |-> FALSE, n |-> 20000]
    /\ dom.modal.totalMxn = [t |-> "num", neg |-> FALSE, n |-> 23200]

\* C10: a line item saved with the whole-number percents p and
\* q shows p and q again when it is opened for edit, and calcularTotales
\* uses the fractions guardarPartida sends.
C10_PorcentajeIdaYVuelta ==
    [][/\ \A i \in 1..Len(tasks), id \in PartidaIds, p \in Porcentajes :
            RespEditar(i, TRUE, PartidaGuardada(id, p, IvaInicial))
            => /\ dom'.modal.sobrecosto = Texto(Doble(p))
               /\ dom'.modal.iva = Texto(Doble(IvaInicial))
       /\ Totales(dom.modal).sobrecostoPct = DatosFormulario(dom.modal).sobrecosto_pct
       /\ Totales(dom.modal).ivaPct = DatosFormulario(dom.modal).iva_pct]_vars


\* The three requests cargarProyecto(p) sends
ReqsProyecto(p) ==
    << Req("GET", "resumen", p, << >>, << >>, {}, Null),
       Req("GET", "categorias", p, << >>, << >>, {}, Null),
       Req("GET", "glosario", p, << >>, << >>, {}, Null) >>

\* C11: guardarPartida sends PUT /partidas/{id} when the form's id field is
\* non-empty and POST /proyectos/{project}/partidas when it is empty; when the
\* request succeeds the modal is closed and cargarProyecto sends its three
\* requests; when it fails the modal is as it was, nothing is sent and the
\* user is alerted once.
C11_GuardarDespacha ==
    [][/\ Submit
          => /\ Len(Nuevas) = 1
             /\ Nuevas[1].k = "guardar"
             /\ Nuevas[1].req.body = DatosFormulario(dom.modal)
             /\ IF dom.modal.id # Null
                THEN /\ Nuevas[1].req.m = "PUT"
                     /\ Nuevas[1].req.ep = "partida"
                     /\ Nuevas[1].req.id = dom.modal.id
                ELSE /\ Nuevas[1].req.m = "POST"
                     /\ Nuevas[1].req.ep = "partidas"
                     /\ Nuevas[1].req.pid = estado.proyectoActual
       /\ \A i \in 1..Len(tasks) :
            RespGuardar(i, TRUE)
            => /\ ~dom'.modal.activo
               /\ Len(Nuevas) = 1
               /\ Nuevas[1].k = "batch"
               /\ contGuardar(Sin(i), tasks[i], TRUE).sent
                     = ReqsProyecto(estado.proyectoActual)
               /\ contGuardar(Sin(i), tasks[i], TRUE).notice = 0
       /\ \A i \in 1..Len(tasks) :
            RespGuardar(i, FALSE)
            => /\ dom' = dom
               /\ tasks' = Quitar(tasks, i)
               /\ contGuardar(Sin(i), tasks[i], FALSE).sent = << >>
               /\ contGuardar(Sin(i), tasks[i], FALSE).notice = 1]_vars

\* C11 witness: the form of an existing line item is open and its save, a
\* PUT to that line item, is in flight.
C11_Witness ==
    /\ dom.modal.activo
    /\ dom.modal.id # Null
    /\ \E i \in 1..Len(tasks) :
          /\ tasks[i].k = "guardar"
          /\ tasks[i].req.m = "PUT"
          /\ tasks[i].req.id = dom.modal.id


\* The step suspended exactly one call, at await k, with request req
SoloPide(k, req) ==
    /\ Len(Nuevas) = 1
    /\ Nuevas[1].k = k
    /\ Nuevas[1].req = req

ReqConceptos(p, categoria) ==
    Req("GET", "conceptos", p, << >>, << >>,
        IF categoria = << >> THEN {} ELSE {<<"categoria", categoria>>}, Null)

ReqPartidas(p, categoria, concepto) ==
    Req("GET", "partidas", p, << >>, << >>,
        (IF categoria = << >> THEN {} ELSE {<<"categoria", categoria>>})
        \cup (IF concepto = << >> THEN {} ELSE {<<"concepto", concepto>>}), Null)

\* The settled request is the concept list the category filter handler awaits
EsDeFiltroCategoria(i) ==
    /\ Pendiente(i, "conceptos")
    /\ tasks[i].ret = <<"filtroCategoria">>

C13_LimpiarPide ==
    [][LimpiarFiltros
       => /\ estado'.filtroCategoria = << >>
          /\ estado'.filtroConcepto = << >>
          /\ SoloPide("partidas", ReqPartidas(estado.proyectoActual, << >>, << >>))]_vars

\* C13 (amended): clearing the filters leaves both filters empty; with a
\* project selected it sends one line-item request without categoria and
\* concepto, with no project selected it sends nothing.
C13_LimpiarPideConProyecto ==
    [][LimpiarFiltros
       => /\ estado'.filtroCategoria = << >>
          /\ estado'.filtroConcepto = << >>
          /\ IF estado.proyectoActual # Null
             THEN SoloPide("partidas", ReqPartidas(estado.proyectoActual, << >>, << >>))
             ELSE Nuevas = << >>]_vars

\* C13 witness: the request for the line items of category Cat1 and concept
\* Con1 is still in flight when the filters are cleared and the unfiltered
\* request goes out behind it.
C13_Witness ==
    /\ estado.filtroCategoria = << >>
    /\ estado.filtroConcepto = << >>
    /\ acciones = 4
    /\ Len(tasks) = 2
    /\ tasks[1].k = "partidas"
    /\ tasks[1].req.params = {<<"categoria", Cat1>>, <<"concepto", Con1>>}
    /\ tasks[2].k = "partidas"
    /\ tasks[2].req.params = {}


AvisosDeFallo(i) ==
    CASE tasks[i].k = "batch" ->
           contBatch(Sin(i), tasks[i], FALSE, Un(DatosBatch(tasks[i].req))).notice
      [] tasks[i].k = "partidas" ->
           contPartidas(Sin(i), tasks[i], FALSE, Un(DatosPartidas(tasks[i].req))).notice
      [] tasks[i].k = "conceptos" ->
           contConceptos(Sin(i), tasks[i], FALSE, Un(DatosConceptos(tasks[i].req))).notice
      [] tasks[i].k = "eliminar" -> contEliminar(Sin(i), tasks[i], FALSE).notice

\* C15: whichever pending request of a project load, a line-item load, a
\* filter change or a delete fails, the user gets a notice.
C15_FalloAvisa ==
    \A i \in 1..Len(tasks) : AvisosDeFallo(i) > 0


ProveedorCargando == dom.modalProveedor.contenido = "cargando"

ProveedorResuelto == dom.modalProveedor.contenido \in {"datos", "error"}

BotonCargando == dom.modalSubir.btnDisabled /\ dom.modalSubir.btnLoading

BotonNormal == ~dom.modalSubir.btnDisabled /\ ~dom.modalSubir.btnLoading

\* C16: provided every request settles, a supplier modal that shows its
\* loading text comes to show data or the error placeholder, and an upload
\* button that is disabled with its loading indicator comes to be enabled
\* with its normal label, whatever way the requests settle.
C16_NoCargaParaSiempre ==
    /\ ProveedorCargando ~> ProveedorResuelto
    /\ BotonCargando ~> BotonNormal

\* C16 witness: the supplier modal shows the error placeholder of a settled
\* request; the upload has succeeded and its button is still disabled while
\* the last request of the reload that follows is pending.
C16_Witness ==
    /\ dom.modalProveedor.contenido = "error"
    /\ BotonCargando
    /\ ~dom.modalSubir.activo
    /\ \E i \in 1..Len(tasks) :
          /\ tasks[i].k = "filtrosProveedores"
          /\ tasks[i].ret = <<"procesarCotizacion">>


\* C19: whichever pending line-item request is fulfilled, whatever was
\* issued or fulfilled before it, its data becomes estado.partidas and the
\* rendered table; no user action, filter change or project switch included,
\* removes a pending request.
C19_UltimaRespuestaGana ==
    [][/\ \A i \in 1..Len(tasks) :
            \A data \in DatosPartidas(tasks[i].req) :
               RespPartidas(i, TRUE, data)
               => /\ estado'.partidas = data
                  /\ dom'.tbody.partidas = data
                  /\ dom'.tbody.modo = (IF data.ids = {} THEN "vacio" ELSE "lista")
       /\ EsPasoUsuario
            => /\ Len(tasks') >= Len(tasks)
               /\ SubSeq(tasks', 1, Len(tasks)) = tasks]_vars

\* C19 witness: project 2 is selected and its line items, requested last,
\* are shown, while the line-item request of project 1, issued before the
\* switch, is still in flight.
C19_Witness ==
    /\ estado.proyectoActual = 2
    /\ estado.partidas.pid = 2
    /\ dom.tbody.partidas.pid = 2
    /\ Len(tasks) = 1
    /\ tasks[1].k = "partidas"
    /\ tasks[1].req.pid = 1

----------------------------------------------------------------------------
(* Names in the markup of the summary tree *)

\* txt holds none of the characters that end a double-quoted attribute value
\* or open or close a tag; every output of escapeHtml is such a text
SinMarcado(txt) == \A i \in 1..Len(txt) : txt[i] \notin {"<", ">", "\""}

\* C17: every text interpolated from a category or concept name into the
\* markup of the rendered summary tree has passed through escapeHtml, so that
\* it holds no raw <, > or " and no character of a name can act as markup.
C17_TodoEscapado ==
    \A n \in 1..Len(dom.arbol.items) :
        LET item == dom.arbol.items[n]
        IN  /\ \A k \in 1..Len(item.textos) : SinMarcado(item.textos[k])
            /\ \A j \in 1..Len(item.hijos.items) :
                  \A k \in 1..Len(item.hijos.items[j].textos) :
                      SinMarcado(item.hijos.items[j].textos[k])

\* C18: the inline click handler of every rendered category and concept is a
\* complete attribute whose call passes exactly the name of the node (the name
\* is also the value of the node's data attribute).
C18_HandlerRecibeNombre ==
    \A n \in 1..Len(dom.arbol.items) :
        LET item == dom.arbol.items[n]
        IN  /\ item.onclick.ok
            /\ item.onclick.v = item.dataCat
            /\ \A j \in 1..Len(item.hijos.items) :
                  LET hijo == item.hijos.items[j]
                  IN  /\ hijo.onclickCat.ok
                      /\ hijo.onclickCon.ok
                      /\ hijo.onclickCon.v = hijo.dataCon

\* Two names differ only in whitespace versus underscore
SoloEspacios(a, b) == ReplaceEspacios(a) = ReplaceEspacios(b)

\* The concepts rendered in the tree, by position
PosConceptos ==
    {p \in (1..Len(dom.arbol.items)) \X (1..2) :
        p[2] <= Len(dom.arbol.items[p[1]].hijos.items)}

ConceptoEn(p) == dom.arbol.items[p[1]].hijos.items[p[2]]

\* C20: two rendered nodes whose names do not differ only in whitespace versus
\* underscore have containers with distinct ids, at the category level (name
\* of the category) and at the concept level (names of category and concept).
C20_IdsDistintos ==
    /\ \A n, m \in 1..Len(dom.arbol.items) :
          ~SoloEspacios(dom.arbol.items[n].dataCat, dom.arbol.items[m].dataCat)
              => dom.arbol.items[n].id # dom.arbol.items[m].id
    /\ \A p, q \in PosConceptos :
          (/\ ConceptoEn(p).onclickCat.ok
           /\ ConceptoEn(q).onclickCat.ok
           /\ \/ ~SoloEspacios(ConceptoEn(p).onclickCat.v, ConceptoEn(q).onclickCat.v)
              \/ ~SoloEspacios(ConceptoEn(p).dataCon, ConceptoEn(q).dataCon))
              => ConceptoEn(p).id # ConceptoEn(q).id

----------------------------------------------------------------------------
(* Expansion keys of categories the data no longer holds *)

\* The calls suspended by a handler that started from s0 and ended in s2
TareasNuevas(s0, s2) == SubSeq(s2.tasks, Len(s0.tasks) + 1, Len(s2.tasks))

NombresDe(data) == {data.categorias[n].categoria : n \in 1..Len(data.categorias)}

ClavesExpandidas(s) == {k \in DOMAIN s.exp.categorias : s.exp.categorias[k]}

\* C21 (as stated): a re-render of the category level removes no expansion
\* key and issues no concepts request for an expanded key whose category is
\* absent from the data it renders.
C21_HuerfanasIgnoradas ==
    \A i \in 1..Len(tasks) : \A data \in DatosNombres :
        tasks[i].k = "resumenJ"
        => LET s2 == contResumenJ(Sin(i), tasks[i], TRUE, data)
               nuevas == TareasNuevas(Sin(i), s2)
           IN  /\ s2.exp = estadoExpansion
               /\ \A n \in 1..Len(nuevas) :
                     nuevas[n].k = "conceptosCat" => nuevas[n].cat \in NombresDe(data)

\* C21 (amended): a re-render of the category level removes no expansion key
\* and issues exactly one concepts request for every expanded key, whether its
\* category is in the data or not, and none for any other key; the answer to
\* the request of a key for which no container has the derived id changes
\* nothing in the page, issues no request and raises no error.
C21_HuerfanasPedidas ==
    /\ \A i \in 1..Len(tasks) : \A data \in DatosNombres :
          tasks[i].k = "resumenJ"
          => LET s2 == contResumenJ(Sin(i), tasks[i], TRUE, data)
                 nuevas == TareasNuevas(Sin(i), s2)
                 pedidas(k) == {n \in 1..Len(nuevas) :
                                   nuevas[n].k = "conceptosCat" /\ nuevas[n].cat = k}
             IN  /\ s2.exp = estadoExpansion
                 /\ \A k \in ClavesExpandidas(Cur) : Cardinality(pedidas(k)) = 1
                 /\ \A n \in 1..Len(nuevas) :
                       nuevas[n].k = "conceptosCat"
                           => nuevas[n].cat \in ClavesExpandidas(Cur)
    /\ \A i \in 1..Len(tasks) : \A l \in NombresListasCon \cup {<< >>} :
          (/\ tasks[i].k = "conceptosCat"
           /\ BuscarContenedor(dom.arbol, IdConceptos(tasks[i].cat)) = 0)
          => LET s2 == contConceptosCat(Sin(i), tasks[i], TRUE, l)
             IN  /\ s2.dom = dom
                 /\ s2.exp = estadoExpansion
                 /\ s2.tasks = Quitar(tasks, i)
                 /\ s2.notice = 0
                 /\ s2.unhandled = 0

\* C21 witness: the tree lists categories, an expanded key has no category in
\* it, and the concepts request a render issued for that key (the request of
\* the filter options follows it) is in flight.
C21_Witness ==
    /\ dom.arbol.modo = "lista"
    /\ \E k \in ClavesExpandidas(Cur) :
          /\ \A n \in 1..Len(dom.arbol.items) : dom.arbol.items[n].dataCat # k
          /\ \E n \in 1..(Len(tasks) - 1) :
                /\ tasks[n].k = "conceptosCat"
                /\ tasks[n].cat = k
                /\ tasks[n + 1].k = "filtrosBF"

----------------------------------------------------------------------------
(* Expansion flags of concepts and of their categories *)

\* C22: every concept key that is marked expanded belongs to a category that
\* is marked expanded: the key starts with the name of such a category and the
\* separator ':'.
C22_ConceptoBajoCategoria ==
    \A key \in DOMAIN estadoExpansion.conceptos :
        estadoExpansion.conceptos[key]
        => \E c \in DOMAIN estadoExpansion.categorias :
              /\ estadoExpansion.categorias[c]
              /\ StartsWith(key, c \o <<":">>)

\* C23: toggleCategoria(c), for a listed category c, leaves the flag of every
\* other category as it is, and the flag of every concept listed under another
\* category too.
C23_ToggleSoloSuCategoria ==
    \A n \in 1..Len(dom.arbol.items) :
        dom.arbol.items[n].onclick.ok
        => LET c == dom.arbol.items[n].onclick.v
               s2 == toggleCategoria(Cur, c)
           IN  /\ \A c2 \in (DOMAIN estadoExpansion.categorias) \ {c} :
                     Get(s2.exp.categorias, c2) = estadoExpansion.categorias[c2]
               /\ \A p \in PosConceptos :
                     (/\ ConceptoEn(p).onclickCat.ok
                      /\ ConceptoEn(p).onclickCat.v # c)
                     => LET key == ClaveConcepto(ConceptoEn(p).onclickCat.v,
                                                 ConceptoEn(p).dataCon)
                        IN  Get(s2.exp.conceptos, key)
                                = Get(estadoExpansion.conceptos, key)

----------------------------------------------------------------------------
(* Reloads after a save or a delete *)

\* C24: the success of a save or of a delete starts a load of the project
\* that is active, which leaves the active project as it is and replaces
\* estadoExpansion and filtrosResumen by their empty values; the failure of a
\* save or of a delete leaves the three as they are and starts no load.
C24_RecargaReinicia ==
    [][\A i \in 1..Len(tasks) :
          /\ (RespGuardar(i, TRUE) \/ RespEliminar(i, TRUE))
              => /\ estado'.proyectoActual = estado.proyectoActual
                 /\ estadoExpansion' = ExpansionVacia
                 /\ filtrosResumen' = FiltrosVacios
                 /\ Len(Nuevas) = 1
                 /\ Nuevas[1].k = "batch"
                 /\ Nuevas[1].req.pid = estado.proyectoActual
          /\ (RespGuardar(i, FALSE) \/ RespEliminar(i, FALSE))
              => /\ estado'.proyectoActual = estado.proyectoActual
                 /\ estadoExpansion' = estadoExpansion
                 /\ filtrosResumen' = filtrosResumen
                 /\ Len(Nuevas) = 0]_vars

\* C24 witness: a save or a delete has succeeded and its reload is in flight:
\* the flags and the filters are empty while the tree still shows a category
\* expanded for the same project.
C24_Witness ==
    /\ estado.proyectoActual # Null
    /\ estadoExpansion = ExpansionVacia
    /\ filtrosResumen = FiltrosVacios
    /\ \E n \in 1..Len(dom.arbol.items) : dom.arbol.items[n].cls
    /\ \E i \in 1..Len(tasks) :
          /\ tasks[i].k = "batch"
          /\ Len(tasks[i].ret) = 2
          /\ tasks[i].ret[2] \in {"guardarPartida", "eliminar"}

----------------------------------------------------------------------------
(* The concept filter and its select *)

\* C25: whenever no request is in flight, estado.filtroConcepto is the value
\* selected in the concept select.
C25_FiltroConceptoVisible ==
    tasks = << >> => estado.filtroConcepto = dom.selCon.val

----------------------------------------------------------------------------
(* Overlapping project loads *)

\* C26: once every request has settled, the project summary shown, the
\* categories, the glossary and the line items in state are those of the
\* project in estado.proyectoActual; with no project selected the glossary is
\* empty and the views show their placeholders.
C26_TodoDelProyectoActual ==
    tasks = << >>
    => IF estado.proyectoActual # Null
       THEN /\ dom.resumen = estado.proyectoActual
            /\ estado.categorias.pid = estado.proyectoActual
            /\ glosario.pid = estado.proyectoActual
            /\ estado.partidas.pid = estado.proyectoActual
       ELSE /\ glosario = SinDatos
            /\ dom.resumen = Null
            /\ dom.selCat = SelectVacio
            /\ dom.selCon = SelectVacio
            /\ dom.tbody.modo = "placeholder"
            /\ dom.glosarioView = "placeholder"

----------------------------------------------------------------------------
(* The line-item form and the requests in flight *)

\* C27: whenever no request is in flight, the button that opens the form for
\* a new line item is enabled exactly when a project is selected, and no
\* create request is ever in flight for the null project.
C27_BotonSegunProyecto ==
    /\ tasks = << >> => (dom.btnNueva <=> estado.proyectoActual # Null)
    /\ \A i \in 1..Len(tasks) :
          (tasks[i].k = "guardar" /\ tasks[i].req.m = "POST") => tasks[i].req.pid # Null

\* C28: from the moment the user opens the form for a new line item, the id
\* field is empty and stays empty when the answer to an edit request that was
\* in flight at that moment arrives, so that the save that follows creates.
C28_ModalUltimaApertura ==
    [][ClickNueva
       => /\ dom'.modal.id = Null
          /\ \A i \in 1..Len(tasks') :
                tasks'[i].k = "editar"
                => \A partida \in PartidasServidor(tasks'[i].req.id) :
                      LET s2 == contEditar([Cur' EXCEPT !.tasks = Quitar(@, i)],
                                           tasks'[i], TRUE, partida)
                      IN  /\ s2.dom.modal.id = Null
                          /\ guardarPartida(s2).sent[1].m = "POST"]_vars

----------------------------------------------------------------------------
(* The items modal and the quotation in cotizacionActual *)

\* C29: while a request of guardarItemCotizacion, eliminarItemCotizacion or
\* editarItemCotizacion is in flight, cotizacionActual, which their
\* continuations dereference, is not null, and the success of an item save or
\* delete raises no error notice.
C29_CotizacionActualNoNula ==
    \A i \in 1..Len(tasks) :
        /\ tasks[i].k \in {"guardarItem", "eliminarItem", "editarItem"}
              => globales.cotizacionActual # Null
        /\ tasks[i].k \in {"guardarItem", "eliminarItem"}
              => contGuardarItem(Sin(i), tasks[i], TRUE).notice = 0

----------------------------------------------------------------------------
(* Looking up the elements rendered for a name *)

\* C30: for every category and concept rendered in the tree, the lookups by
\* the id derived from its name find the container rendered for it, and a
\* category whose flag is set shows its expanded state.
C30_BusquedasEncuentran ==
    /\ \A n \in 1..Len(dom.arbol.items) :
          LET nombre == dom.arbol.items[n].dataCat
          IN  /\ BuscarContenedor(dom.arbol, IdConceptos(nombre)) = n
              /\ Get(estadoExpansion.categorias, nombre) => dom.arbol.items[n].cls
    /\ \A p \in PosConceptos :
          ConceptoEn(p).onclickCat.ok
          => BuscarDetalles(dom.arbol,
                            IdDetalles(ConceptoEn(p).onclickCat.v, ConceptoEn(p).dataCon))
                 = p

====
